---- MODULE Spec2Model ----
(***************************************************************************)
(* A model of the hz development proxy: the configuration manager          *)
(* (config.Manager), the service registry (registry.Registry), the router  *)
(* (router.Router) and the reload wiring of `hz start` (runStart).         *)
(*                                                                         *)
(* Go strings are sequences of one-character strings, so that the string   *)
(* operations of the code (SplitN, HasPrefix, TrimSuffix, path.Clean, len) *)
(* are computed and not assumed.  A nil pointer is the empty sequence and  *)
(* a non-nil pointer a one-element sequence.                               *)
(***************************************************************************)
EXTENDS Integers, Sequences, FiniteSets, TLC

\* ------------------------------------------------------------------ bounds
\* Number of configuration snapshots the config manager may publish.
MaxLoads == 2
\* Number of Match calls that may be in flight at once.
MaxTasks == 1
\* Number of probe rounds (doHealthCheck calls) issued over a run.
MaxProbes == 2
\* Number of direct Register calls over a run of the registry on its own.
MaxRegisters == 2
\* Number of writes of the configuration file after the manager was created.
MaxWrites == 2
\* Number of listeners registered with Manager.OnReload.
MaxListeners == 2
\* Number of requests the proxy accepts over a run.
MaxRequests == 2
\* Number of frames a peer of a WebSocket session sends.
MaxFrames == 2
\* Number of records handed to Inspector.Capture over a run.
MaxCaptures == 103

MaxOffers == 11

\* ----------------------------------------------------------------- strings
LowerLetters ==
  <<"a","b","c","d","e","f","g","h","i","j","k","l","m",
    "n","o","p","q","r","s","t","u","v","w","x","y","z">>

UpperLetters ==
  <<"A","B","C","D","E","F","G","H","I","J","K","L","M",
    "N","O","P","Q","R","S","T","U","V","W","X","Y","Z">>

LetterIdx == 1..26

\* unicode.ToUpper on one character
ToUpperCh(c) ==
  IF \E i \in LetterIdx : LowerLetters[i] = c
    THEN UpperLetters[CHOOSE i \in LetterIdx : LowerLetters[i] = c]
    ELSE c

\* unicode.ToLower on one character
ToLowerCh(c) ==
  IF \E i \in LetterIdx : UpperLetters[i] = c
    THEN LowerLetters[CHOOSE i \in LetterIdx : UpperLetters[i] = c]
    ELSE c

\* strings.ToUpper
ToUpper(s) == [i \in 1..Len(s) |-> ToUpperCh(s[i])]

\* strings.ToLower
ToLower(s) == [i \in 1..Len(s) |-> ToLowerCh(s[i])]

\* strings.Contains
Contains(s, sub) ==
  \E i \in 0..(Len(s) - Len(sub)) : SubSeq(s, i + 1, i + Len(sub)) = sub

\* strings.HasPrefix
HasPrefix(s, p) == Len(p) <= Len(s) /\ SubSeq(s, 1, Len(p)) = p

\* strings.HasSuffix
HasSuffix(s, p) ==
  Len(p) <= Len(s) /\ SubSeq(s, Len(s) - Len(p) + 1, Len(s)) = p

\* strings.TrimPrefix
TrimPrefix(s, p) == IF HasPrefix(s, p) THEN SubSeq(s, Len(p) + 1, Len(s)) ELSE s

\* strings.TrimSuffix
TrimSuffix(s, p) == IF HasSuffix(s, p) THEN SubSeq(s, 1, Len(s) - Len(p)) ELSE s

\* strings.Index for a one-character separator: 0 when absent (Go: -1)
IndexCh(s, c) ==
  IF \E i \in 1..Len(s) : s[i] = c
    THEN CHOOSE i \in 1..Len(s) : s[i] = c /\ \A j \in 1..(i - 1) : s[j] # c
    ELSE 0

\* strings.SplitN(s, sep, 2) for a one-character separator
SplitN2(s, sep) ==
  LET i == IndexCh(s, sep)
  IN IF i = 0 THEN <<s>>
     ELSE <<SubSeq(s, 1, i - 1), SubSeq(s, i + 1, Len(s))>>

RECURSIVE TrimLeft(_)
TrimLeft(s) ==
  IF s # <<>> /\ Head(s) = " " THEN TrimLeft(Tail(s)) ELSE s

RECURSIVE TrimRight(_)
TrimRight(s) ==
  IF s # <<>> /\ s[Len(s)] = " " THEN TrimRight(SubSeq(s, 1, Len(s) - 1)) ELSE s

\* strings.TrimSpace
TrimSpace(s) == TrimRight(TrimLeft(s))

\* The path segments of a string: strings.Split(s, "/")
RECURSIVE SplitSlash(_, _, _)
SplitSlash(s, cur, acc) ==
  IF s = <<>> THEN Append(acc, cur)
  ELSE IF Head(s) = "/" THEN SplitSlash(Tail(s), <<>>, Append(acc, cur))
  ELSE SplitSlash(Tail(s), Append(cur, Head(s)), acc)

\* The lexical processing of path.Clean on the segments of a rooted path
RECURSIVE CleanSegs(_, _)
CleanSegs(segs, stack) ==
  IF segs = <<>> THEN stack
  ELSE LET g == Head(segs)
       IN IF g = <<>> \/ g = <<".">> THEN CleanSegs(Tail(segs), stack)
          ELSE IF g = <<".", ".">>
            THEN CleanSegs(Tail(segs),
                   IF stack = <<>> THEN stack ELSE SubSeq(stack, 1, Len(stack) - 1))
          ELSE CleanSegs(Tail(segs), Append(stack, g))

RECURSIVE JoinSlash(_)
JoinSlash(segs) ==
  IF segs = <<>> THEN <<>> ELSE <<"/">> \o Head(segs) \o JoinSlash(Tail(segs))

\* path.Clean("/" + p): the argument of Clean is always rooted in matchPath
CleanRooted(p) ==
  LET segs == CleanSegs(SplitSlash(<<"/">> \o p, <<>>, <<>>), <<>>)
  IN IF segs = <<>> THEN <<"/">> ELSE JoinSlash(segs)

\* http.CanonicalHeaderKey: a key holding a byte that is no token character is
\* returned unchanged; otherwise the first letter and every letter after a
\* hyphen are upper-cased and the others lower-cased.
IsTokenCh(c) ==
  \/ \E i \in LetterIdx : LowerLetters[i] = c \/ UpperLetters[i] = c
  \/ c \in {"-", "_", ".", "0", "1", "2", "3", "4", "5", "6", "7", "8", "9"}

CanonicalHeaderKey(k) ==
  IF \E i \in 1..Len(k) : ~IsTokenCh(k[i]) THEN k
  ELSE [i \in 1..Len(k) |->
          IF i = 1 \/ k[i - 1] = "-" THEN ToUpperCh(k[i]) ELSE ToLowerCh(k[i])]

\* http.Header.Get: the first value stored under the canonical key, else ""
HeaderGet(header, name) ==
  LET k == CanonicalHeaderKey(name)
      hits == {i \in 1..Len(header) : header[i][1] = k}
  IN IF hits = {} THEN <<>>
     ELSE header[CHOOSE i \in hits : \A j \in hits : i <= j][2]

\* ------------------------------------------------------------------ router
\* types.RouteConfig
RouteConfig(p, h, sd, m, prio) ==
  [Path |-> p, Header |-> h, Subdomain |-> sd, Method |-> m, Priority |-> prio]

\* matchPath
matchPath(urlPath, pattern) ==
  IF urlPath = pattern THEN TRUE
  ELSE LET u == CleanRooted(urlPath)
           p == CleanRooted(pattern)
       IN IF HasSuffix(p, <<"/", "*">>)
            THEN LET prefix == TrimSuffix(p, <<"/", "*">>)
                 IN u = prefix \/ HasPrefix(u, prefix \o <<"/">>)
          ELSE IF HasSuffix(p, <<"*">>)
            THEN HasPrefix(u, TrimSuffix(p, <<"*">>))
          ELSE HasPrefix(u, p)

\* matchSubdomain
matchSubdomain(host, subdomain) ==
  LET idx == IndexCh(host, ":")
      h == IF idx # 0 THEN SubSeq(host, 1, idx - 1) ELSE host
  IN HasPrefix(h, subdomain \o <<".">>)

Matcher(kind, a, b) == [kind |-> kind, a |-> a, b |-> b]

\* The separator buildRoute splits a header rule at
HeaderSeparator == ":"

\* The closure buildRoute appends for the header clause: none when the rule
\* does not split in two at the separator
HeaderMatchers(h) ==
  LET parts == SplitN2(h, HeaderSeparator)
  IN IF Len(parts) = 2
       THEN <<Matcher("header", TrimSpace(parts[1]), TrimSpace(parts[2]))>>
       ELSE <<>>

\* The closures buildRoute collects for a rule, in the order of the code
RuleMatchers(cfg) ==
     (IF cfg.Path # <<>> THEN <<Matcher("path", cfg.Path, <<>>)>> ELSE <<>>)
  \o (IF cfg.Header # <<>> THEN HeaderMatchers(cfg.Header) ELSE <<>>)
  \o (IF cfg.Subdomain # <<>>
        THEN <<Matcher("subdomain", cfg.Subdomain, <<>>)>> ELSE <<>>)
  \o (IF cfg.Method # <<>>
        THEN <<Matcher("method", ToUpper(cfg.Method), <<>>)>> ELSE <<>>)

\* Router.buildRoute: nil (the empty sequence) when the rule has no matcher
buildRoute(svc, cfg) ==
  LET ms == RuleMatchers(cfg)
  IN IF ms = <<>> THEN <<>>
     ELSE <<[Pattern |-> cfg.Path, Service |-> svc, Config |-> cfg,
             Matchers |-> ms]>>

\* The default route Router.Build makes for a service marked default
DefaultRouteOf(svc) ==
  [Pattern |-> <<"*">>, Service |-> svc,
   Config |-> RouteConfig(<<>>, <<>>, <<>>, <<>>, 0),
   Matchers |-> <<Matcher("always", <<>>, <<>>)>>]

\* One closure applied to a request
EvalMatcher(m, req) ==
  CASE m.kind = "path" -> matchPath(req.Path, m.a)
    [] m.kind = "header" -> HeaderGet(req.Header, m.a) = m.b
    [] m.kind = "subdomain" -> matchSubdomain(req.Host, m.a)
    [] m.kind = "method" -> req.Method = m.a
    [] OTHER -> TRUE

\* types.Route.MatchFunc: the conjunction of the closures
MatchFunc(route, req) ==
  \A i \in 1..Len(route.Matchers) : EvalMatcher(route.Matchers[i], req)

\* The less function Router.Build hands to sort.Slice
RouteLess(a, b) ==
  IF a.Config.Priority # b.Config.Priority
    THEN a.Config.Priority > b.Config.Priority
    ELSE Len(a.Pattern) > Len(b.Pattern)

IndexPerms(n) ==
  {f \in [1..n -> 1..n] : \A i, j \in 1..n : f[i] = f[j] => i = j}

\* sort.Slice: "The sort is not guaranteed to be stable".  Every arrangement
\* of the slice that is ordered by the less function is a possible outcome;
\* which one a build produces depends on the slice length and on the sort
\* implementation of the Go release.
SortSlice(rs) ==
  {[i \in 1..Len(rs) |-> rs[f[i]]] : f \in
     {g \in IndexPerms(Len(rs)) :
        \A i, j \in 1..Len(rs) : i < j => ~RouteLess(rs[g[j]], rs[g[i]])}}

\* The routes one service contributes: the inner loop of Router.Build
RECURSIVE ServiceRoutes(_, _)
ServiceRoutes(svc, k) ==
  IF k > Len(svc.Routes) THEN <<>>
  ELSE buildRoute(svc, svc.Routes[k]) \o ServiceRoutes(svc, k + 1)

\* A loop that keeps scanning after a hit: the last route that matches
RECURSIVE ScanRoutes_Last(_, _, _)
ScanRoutes_Last(rs, req, i) ==
  IF i > Len(rs) THEN <<>>
  ELSE LET later == ScanRoutes_Last(rs, req, i + 1)
       IN IF later # <<>> THEN later
          ELSE IF MatchFunc(rs[i], req) THEN <<rs[i]>> ELSE <<>>

\* The loop of Router.Match over the slice: the first route whose MatchFunc
\* is true, nil when the loop ends without one
RECURSIVE ScanRoutes(_, _, _)
ScanRoutes(rs, req, i) ==
  IF i > Len(rs) THEN <<>>
  ELSE IF MatchFunc(rs[i], req) THEN <<rs[i]>>
  ELSE ScanRoutes(rs, req, i + 1)

\* ------------------------------------------------------------ config store
\* types.HealthConfig, as the pointer Service.Health: nil or one record
HealthOf(p) == IF p = <<>> THEN <<>> ELSE <<[Path |-> p]>>

\* A service as yaml.Unmarshal leaves it in types.Config.Services
ServiceDecl(name, target, def, healthPath, rts) ==
  [Name |-> name, Target |-> target, Default |-> def,
   Health |-> HealthOf(healthPath), Routes |-> rts]

\* url.Parse of a target: the targets of the documents below are either
\* absolute URLs or the string ":bad", which url.Parse rejects (a first path
\* segment with a colon and no scheme)
UrlParses(t) == t # ":bad"

\* A validation loop that accepts several declared defaults
RECURSIVE validateFrom_ManyDefaults(_, _, _, _)
validateFrom_ManyDefaults(c, i, names, hasDefault) ==
  IF i > Len(c) THEN "ok"
  ELSE LET svc == c[i]
       IN IF svc.Name \in names THEN "duplicate service name"
          ELSE IF svc.Name = "" THEN "service has no name"
          ELSE IF svc.Target = "" THEN "service has no target"
          ELSE IF ~UrlParses(svc.Target) THEN "invalid target URL"
          ELSE validateFrom_ManyDefaults(c, i + 1, names \cup {svc.Name},
                                         hasDefault \/ svc.Default)

\* The loop of Manager.validateAndParse, from service i on: "ok" or the
\* error it returns
RECURSIVE validateFrom(_, _, _, _)
validateFrom(c, i, names, hasDefault) ==
  IF i > Len(c) THEN "ok"
  ELSE LET svc == c[i]
       IN IF svc.Name \in names THEN "duplicate service name"
          ELSE IF svc.Name = "" THEN "service has no name"
          ELSE IF svc.Target = "" THEN "service has no target"
          ELSE IF ~UrlParses(svc.Target) THEN "invalid target URL"
          ELSE IF svc.Default /\ hasDefault THEN "multiple default services defined"
          ELSE validateFrom(c, i + 1, names \cup {svc.Name},
                            hasDefault \/ svc.Default)

\* A validateAndParse that promotes nothing
PromoteFirst_Skip(c) == c

\* The end of Manager.validateAndParse: with no explicit default the first
\* service becomes the default
PromoteFirst(c) ==
  IF (\A i \in 1..Len(c) : ~c[i].Default) /\ Len(c) > 0
    THEN [c EXCEPT ![1].Default = TRUE]
    ELSE c

\* Manager.validateAndParse: the error, and the services as it leaves them
validateAndParse(c) ==
  IF Len(c) = 0 THEN [err |-> "at least one service must be defined", Services |-> c]
  ELSE LET e == validateFrom(c, 1, {}, FALSE)
       IN IF e # "ok" THEN [err |-> e, Services |-> c]
          ELSE [err |-> "ok", Services |-> PromoteFirst(c)]

\* The Service objects of a snapshot: object g.i is service i of the g-th
\* snapshot the manager publishes (every Load allocates new objects)
WithIds(c, g) ==
  [i \in 1..Len(c) |->
     [id |-> <<g, i>>, Name |-> c[i].Name, Target |-> c[i].Target,
      Default |-> c[i].Default, Health |-> c[i].Health, Routes |-> c[i].Routes]]

\* ------------------------------------------------------ documents, requests
PathX == <<"/", "x">>
PathAb == <<"/", "a", "b">>
PathAStar == <<"/", "a", "*">>
PathApiStar == <<"/", "a", "p", "i", "/", "*">>
PathApiUsersStar == <<"/", "a", "p", "i", "/", "u", "s", "e", "r", "s", "/", "*">>
PathApiUsers1 == <<"/", "a", "p", "i", "/", "u", "s", "e", "r", "s", "/", "1">>
PathApiOrders == <<"/", "a", "p", "i", "/", "o", "r", "d", "e", "r", "s">>
PathBStar == <<"/", "b", "/", "*">>
PathBx == <<"/", "b", "/", "x">>
PathHealth == <<"/", "h">>

\* The header rules of the README: "b-service=sabry", "b-service=ahmed"
HeaderSabry ==
  <<"b", "-", "s", "e", "r", "v", "i", "c", "e", "=", "s", "a", "b", "r", "y">>
HeaderAhmed ==
  <<"b", "-", "s", "e", "r", "v", "i", "c", "e", "=", "a", "h", "m", "e", "d">>
\* A header rule written with a colon: "x-env: s"
HeaderColon == <<"x", "-", "e", "n", "v", ":", " ", "s">>

PathRule(p, prio) == RouteConfig(p, <<>>, <<>>, <<>>, prio)
HeaderRule(h, prio) == RouteConfig(<<>>, h, <<>>, <<>>, prio)
EmptyRule == RouteConfig(<<>>, <<>>, <<>>, <<>>, 0)

\* Scenario S1 (README, Header-Based Service Routing)
DocS1 ==
  << ServiceDecl("sabry", "http://127.0.0.1:3008", FALSE, <<>>,
                 <<HeaderRule(HeaderSabry, 0)>>),
     ServiceDecl("ahmed", "http://127.0.0.1:3009", FALSE, <<>>,
                 <<HeaderRule(HeaderAhmed, 0)>>),
     ServiceDecl("default", "http://127.0.0.1:3001", TRUE, <<>>, <<>>) >>

\* Scenario S3: two rules of priority 0, no default declared
DocS3 ==
  << ServiceDecl("A", "http://127.0.0.1:4001", FALSE, <<>>,
                 <<PathRule(PathApiUsersStar, 0)>>),
     ServiceDecl("B", "http://127.0.0.1:4002", FALSE, <<>>,
                 <<PathRule(PathApiStar, 0)>>) >>

\* Two rules of equal priority and equal pattern length that match the same
\* path, a rule of higher priority declared after them, a rule without clause
DocTie1 ==
  << ServiceDecl("A", "http://127.0.0.1:4001", TRUE, <<>>,
                 <<PathRule(PathAb, 0)>>),
     ServiceDecl("B", "http://127.0.0.1:4002", FALSE, <<>>,
                 <<PathRule(PathAStar, 0), HeaderRule(HeaderColon, 1), EmptyRule>>) >>

\* The rules of DocTie1 with the two services declared in the other order
DocTie2 == <<DocTie1[2], DocTie1[1]>>

RouterDocs == {DocS1, DocS3, DocTie1, DocTie2}

\* A rule with a path and a header clause written as the README writes it,
\* a rule with a path and a method clause
DocPathHeader ==
  << ServiceDecl("sabry", "http://127.0.0.1:3008", FALSE, <<>>,
                 <<RouteConfig(PathX, HeaderSabry, <<>>, <<>>, 0)>>),
     ServiceDecl("m", "http://127.0.0.1:3009", FALSE, <<>>,
                 <<RouteConfig(PathAb, <<>>, <<>>, <<"g", "e", "t">>, 0)>>),
     ServiceDecl("default", "http://127.0.0.1:3001", TRUE, <<>>, <<>>) >>

\* A path rule and a header rule of equal priority
DocMixed ==
  << ServiceDecl("A", "http://127.0.0.1:4001", TRUE, <<>>,
                 <<PathRule(PathAb, 0)>>),
     ServiceDecl("B", "http://127.0.0.1:4002", FALSE, <<>>,
                 <<HeaderRule(HeaderColon, 0)>>) >>

RuleDocs == {DocPathHeader, DocMixed}

\* Backends with a health probe; S5 adds b to a
DocA ==
  << ServiceDecl("a", "http://127.0.0.1:3001", TRUE, PathHealth, <<>>) >>
DocAB ==
  << ServiceDecl("a", "http://127.0.0.1:3001", FALSE, PathHealth, <<>>),
     ServiceDecl("b", "http://127.0.0.1:3002", FALSE, <<>>,
                 <<PathRule(PathBStar, 0)>>) >>
\* Rejected documents
DocDup == <<DocA[1], DocA[1]>>
DocNone == <<>>

ProgramDocs == {DocA, DocAB, DocDup, DocNone}

\* More rejected documents: two declared defaults, a service without a name
DocTwoDefaults ==
  << ServiceDecl("a", "http://127.0.0.1:3001", TRUE, <<>>, <<>>),
     ServiceDecl("b", "http://127.0.0.1:3002", TRUE, <<>>, <<>>) >>
DocNoName ==
  << ServiceDecl("", "http://127.0.0.1:3001", FALSE, <<>>, <<>>) >>
\* An accepted document whose default is declared on the second service
DocSecondDefault ==
  << ServiceDecl("a", "http://127.0.0.1:3001", FALSE, <<>>, <<>>),
     ServiceDecl("b", "http://127.0.0.1:3002", TRUE, <<>>, <<>>) >>

ConfigDocs ==
  {DocA, DocAB, DocDup, DocNone, DocTwoDefaults, DocNoName, DocSecondDefault}

\* The path `hz status` asks the proxy listener for
PathHzHealth ==
  <<"/", "_", "_", "h", "z", "/", "h", "e", "a", "l", "t", "h">>

Request(m, p, host, hdr) == [Method |-> m, Path |-> p, Host |-> host, Header |-> hdr]

Get == <<"G", "E", "T">>
HostLocal == <<"l", "o", "c", "a", "l", ":", "3", "0", "0", "0">>
\* The header of `curl -H "b-service: sabry"` as net/http stores it
HdrBServiceSabry == << <<CanonicalHeaderKey(SubSeq(HeaderSabry, 1, 9)),
                         SubSeq(HeaderSabry, 11, 15)>> >>
HdrEnvS == << <<CanonicalHeaderKey(<<"x", "-", "e", "n", "v">>), <<"s">>>> >>

Requests ==
  << Request(Get, PathX, HostLocal, HdrBServiceSabry),
     Request(Get, PathX, HostLocal, <<>>),
     Request(Get, PathApiUsers1, HostLocal, <<>>),
     Request(Get, PathApiOrders, HostLocal, <<>>),
     Request(Get, PathAb, HostLocal, <<>>),
     Request(Get, PathAb, HostLocal, HdrEnvS),
     Request(Get, PathBx, HostLocal, <<>>),
     Request(Get, PathHzHealth, HostLocal, <<>>) >>

ReqIds == 1..Len(Requests)

\* ------------------------------------------------------------------- state
VARIABLES
  config,        \* Manager.config: nil, or the published snapshot
  loads,         \* number of snapshots published (the generation of objects)
  routes,        \* Router.routes
  defaultRoute,  \* Router.defaultRoute: nil or one route
  mu,            \* Router.mu: the writer holding it, the number of readers
  build,         \* the running Router.Build call: position, argument, index
  built,         \* the argument of the last Build that returned
  tasks,         \* the Router.Match calls: position, request, result
  services,      \* Registry.services: name -> service object
  status,        \* Service.Status of every service object
  probes,        \* the healthCheckLoop goroutines started so far
  eventCh,       \* Registry.eventCh: the buffered events
  ctxDone,       \* Registry.ctx is cancelled
  chClosed,      \* Registry.eventCh is closed
  panicked,      \* the process died of a send on the closed channel
  nProbes,       \* number of probe rounds issued
  nRegs,         \* number of direct Register calls
  stopCh,        \* Manager.stopCh is closed
  main,          \* runStart, then the watchLoop goroutine: position, index
  file,          \* the document in the configuration file
  events,        \* the write events buffered in watcher.Events
  cfgLog,        \* what the manager did: writes seen, Loads, listener calls
  stats,         \* Proxy.stats and the counters of the Service objects
  handlers,      \* the Proxy.ServeHTTP calls: position, request, response
  fwd,           \* one forwarded request: the inbound request, the service,
                 \* the request as RewriteURL and the director leave it
  sess,          \* one HandleWebSocket call: the handler, the two connections,
                 \* the two copier goroutines, errChan, the frames
  ring           \* Inspector.requests and Inspector.requestSeq

vars == <<config, loads, routes, defaultRoute, mu, build, built, tasks,
          services, status, probes, eventCh, ctxDone, chClosed, panicked,
          nProbes, nRegs, stopCh, main, file, events, cfgLog, stats,
          handlers, fwd, sess, ring>>

exchangeVars == <<fwd, sess, ring>>

proxyVars == <<stats, handlers>>

cfgVars == <<file, events, cfgLog>>

routerVars == <<routes, defaultRoute, mu, build, built>>
registryVars == <<services, status, probes, eventCh, ctxDone, chClosed,
                  panicked, nProbes, nRegs, stopCh>>

TaskIds == 1..MaxTasks

EmptyTable == [routes |-> <<>>, defaultRoute |-> <<>>, built |-> <<>>]

IdleTask == [pc |-> "idle", req |-> 0, view |-> EmptyTable, result |-> <<>>]

IdleBuild == [pc |-> "idle", services |-> <<>>, i |-> 0]

\* types.ProxyStats after proxy.New, and the request and error counters of
\* the Service objects (zero for an object that is not in the domain).
\* Rejected counts the requests answered for lack of a route; the code keeps
\* no such counter.
ZeroStats ==
  [TotalRequests |-> 0, ActiveRequests |-> 0, TotalErrors |-> 0,
   RequestCount |-> <<>>, ErrorCount |-> <<>>, Rejected |-> 0]

\* A ServeHTTP call: the request, whether it is a WebSocket upgrade, the
\* upstream error (nil or one error), the status written to the client and
\* what captureRequest handed to the inspector (nil or one record)
\* inspector.New: no record, no id handed out
\* The handleSSE connections and the callers of Capture
SubIds == {"s1", "s2"}

CapIds == {"c1", "c2"}

\* No handleSSE call: no channel made
NoSubscriber ==
  [pc |-> "none", buf |-> <<>>, closed |-> FALSE, got |-> {}, lost |-> {},
   joined |-> 0]

\* No Capture call
IdleCapture == [pc |-> "idle", rec |-> 0, left |-> {}]

\* inspector.New: no record, no id handed out, no client.  mu and clientsMu
\* count the holders of the read locks; sub and cap are the handleSSE and
\* Capture calls; sentClosed records a send on a closed channel
EmptyRing ==
  [requests |-> <<>>, requestSeq |-> 0, clients |-> {}, mu |-> 0,
   clientsMu |-> 0, sub |-> [s \in SubIds |-> NoSubscriber],
   cap |-> [c \in CapIds |-> IdleCapture], sentClosed |-> FALSE]

\* A copier goroutine that has not been started
IdleCopier == [pc |-> "none", msg |-> <<>>]

\* No HandleWebSocket call: no connection, no goroutine, nothing sent
IdleSession ==
  [pc |-> "idle", conns |-> 0, client |-> "none", backend |-> "none",
   peerC |-> TRUE, peerB |-> TRUE,
   copier |-> [d \in {"c2b", "b2c"} |-> IdleCopier], errChan |-> 0,
   sent |-> [d \in {"c2b", "b2c"} |-> <<>>],
   queue |-> [d \in {"c2b", "b2c"} |-> <<>>],
   recv |-> [d \in {"c2b", "b2c"} |-> <<>>], code |-> 0]

\* No request is being forwarded
IdleForward == [pc |-> "idle"]

IdleHandler ==
  [pc |-> "idle", req |-> 0, ws |-> FALSE, err |-> <<>>, code |-> 0,
   captured |-> <<>>, route |-> <<>>, target |-> <<>>]

\* ------------------------------------------------------- router: the lock
\* sync.RWMutex.Lock returns: no writer and no reader holds the lock
CanLock == ~mu.writer /\ mu.readers = 0

\* A read lock that excludes nobody
CanRLock_NoExclusion == TRUE

\* sync.RWMutex.RLock returns: no writer holds the lock and none waits for it
\* (a blocked Lock call excludes new readers)
CanRLock == ~mu.writer /\ ~mu.waiting

\* ------------------------------------------------------ router: operations
\* Router.Build is called and blocks in r.mu.Lock()
BuildCall(svcs) ==
  /\ build.pc = "idle"
  /\ build' = [pc |-> "lock", services |-> svcs, i |-> 0]
  /\ mu' = [mu EXCEPT !.waiting = TRUE]
  /\ UNCHANGED <<routes, defaultRoute, built>>

\* Router.Build, to the start of its loop: takes the lock, empties the list
\* and the default slot
BuildBegin ==
  /\ ~panicked
  /\ build.pc = "lock"
  /\ CanLock
  /\ mu' = [mu EXCEPT !.writer = TRUE, !.waiting = FALSE]
  /\ routes' = <<>>
  /\ defaultRoute' = <<>>
  /\ build' = [build EXCEPT !.pc = "loop", !.i = 1]
  /\ UNCHANGED <<built, config, loads, tasks, main>>
  /\ UNCHANGED registryVars
  /\ UNCHANGED cfgVars
  /\ UNCHANGED proxyVars
  /\ UNCHANGED exchangeVars

\* Router.Build, one iteration of the loop over the services
BuildLoop ==
  /\ ~panicked
  /\ build.pc = "loop"
  /\ build.i <= Len(build.services)
  /\ LET svc == build.services[build.i]
     IN /\ defaultRoute' = IF svc.Default THEN <<DefaultRouteOf(svc)>>
                           ELSE defaultRoute
        /\ routes' = routes \o ServiceRoutes(svc, 1)
  /\ build' = [build EXCEPT !.i = @ + 1]
  /\ UNCHANGED <<mu, built, config, loads, tasks, main>>
  /\ UNCHANGED registryVars
  /\ UNCHANGED cfgVars
  /\ UNCHANGED proxyVars
  /\ UNCHANGED exchangeVars

\* Router.Build, after the loop: sorts the list, releases the lock, returns
BuildSort ==
  /\ ~panicked
  /\ build.pc = "loop"
  /\ build.i > Len(build.services)
  /\ \E sorted \in SortSlice(routes) : routes' = sorted
  /\ mu' = [mu EXCEPT !.writer = FALSE]
  /\ built' = build.services
  /\ build' = IdleBuild
  /\ main' = IF main.pc = "building"
               THEN [main EXCEPT !.pc = "watch", !.i = 0, !.up = TRUE] ELSE main
  /\ UNCHANGED <<defaultRoute, config, loads, tasks>>
  /\ UNCHANGED registryVars
  /\ UNCHANGED cfgVars
  /\ UNCHANGED proxyVars
  /\ UNCHANGED exchangeVars

\* Router.Match, to the start of its loop: takes the read lock.  view is the
\* table at that moment.
MatchLock(t, r) ==
  /\ ~panicked
  /\ tasks[t].pc \in {"idle", "done"}
  /\ CanRLock
  /\ mu' = [mu EXCEPT !.readers = @ + 1]
  /\ tasks' = [tasks EXCEPT ![t] =
       [pc |-> "scan", req |-> r,
        view |-> [routes |-> routes, defaultRoute |-> defaultRoute,
                  built |-> built],
        result |-> <<>>]]
  /\ UNCHANGED <<routes, defaultRoute, build, built, config, loads, main>>
  /\ UNCHANGED registryVars
  /\ UNCHANGED cfgVars

\* Router.Match called on its own
MatchBegin(t, r) ==
  /\ MatchLock(t, r)
  /\ UNCHANGED proxyVars
  /\ UNCHANGED exchangeVars

\* Router.Match, the loop over r.routes: returns the first route that matches
MatchScan(t) ==
  /\ ~panicked
  /\ tasks[t].pc = "scan"
  /\ LET hit == ScanRoutes(routes, Requests[tasks[t].req], 1)
     IN \/ /\ hit # <<>>
           /\ tasks' = [tasks EXCEPT ![t].pc = "done", ![t].result = hit]
           /\ mu' = [mu EXCEPT !.readers = @ - 1]
        \/ /\ hit = <<>>
           /\ tasks' = [tasks EXCEPT ![t].pc = "default"]
           /\ UNCHANGED mu
  /\ UNCHANGED <<routes, defaultRoute, build, built, config, loads, main>>
  /\ UNCHANGED registryVars
  /\ UNCHANGED cfgVars
  /\ UNCHANGED proxyVars
  /\ UNCHANGED exchangeVars

\* Router.Match, after the loop: returns the default route, or nil
MatchDefault(t) ==
  /\ ~panicked
  /\ tasks[t].pc = "default"
  /\ tasks' = [tasks EXCEPT ![t].pc = "done", ![t].result = defaultRoute]
  /\ mu' = [mu EXCEPT !.readers = @ - 1]
  /\ UNCHANGED <<routes, defaultRoute, build, built, config, loads, main>>
  /\ UNCHANGED registryVars
  /\ UNCHANGED cfgVars
  /\ UNCHANGED proxyVars
  /\ UNCHANGED exchangeVars

\* ------------------------------------------------- config store: operations
\* Manager.Load of document d when g snapshots were published before:
\* yaml.Unmarshal, applyDefaults, validateAndParse
LoadResult(d, g) ==
  LET v == validateAndParse(d)
  IN [err |-> v.err, Services |-> WithIds(v.Services, g + 1)]

\* Manager.applyDefaults: every service of a new snapshot is Unknown
applyDefaults(svcs) ==
  [id \in {svcs[i].id : i \in 1..Len(svcs)} |-> "unknown"]

\* Manager.Load succeeds and publishes the snapshot
Publish(svcs) ==
  /\ config' = <<[gen |-> loads + 1, Services |-> svcs]>>
  /\ loads' = loads + 1
  /\ status' = applyDefaults(svcs) @@ status

\* The router used on its own: Build is called with the services of a
\* snapshot the config manager publishes
RouterBuild(d) ==
  /\ loads < MaxLoads
  /\ LoadResult(d, loads).err = "ok"
  /\ BuildCall(LoadResult(d, loads).Services)
  /\ loads' = loads + 1
  /\ UNCHANGED <<config, tasks, main>>
  /\ UNCHANGED registryVars
  /\ UNCHANGED cfgVars
  /\ UNCHANGED proxyVars
  /\ UNCHANGED exchangeVars

\* router.New(), registry.New(), no snapshot loaded; st is the Status of the
\* service objects that exist, m the position of the caller
InitFrom(m, st, svcs, ch) ==
  /\ config = <<>>
  /\ loads = 0
  /\ routes = <<>>
  /\ defaultRoute = <<>>
  /\ mu = [writer |-> FALSE, waiting |-> FALSE, readers |-> 0]
  /\ build = IdleBuild
  /\ built = <<>>
  /\ tasks = [t \in TaskIds |-> IdleTask]
  /\ services = svcs
  /\ status = st
  /\ probes = <<>>
  /\ eventCh = ch
  /\ ctxDone = FALSE
  /\ chClosed = FALSE
  /\ panicked = FALSE
  /\ nProbes = 0
  /\ nRegs = 0
  /\ stopCh = FALSE
  /\ main = m
  /\ file = <<>>
  /\ events = 0
  /\ cfgLog = <<>>
  /\ stats = ZeroStats
  /\ handlers = [t \in TaskIds |-> IdleHandler]

InitState(m, st) == InitFrom(m, st, <<>>, <<>>)

InitWith(m, st) ==
  /\ InitState(m, st)
  /\ fwd = IdleForward
  /\ sess = IdleSession
  /\ ring = EmptyRing

InitRouter == InitWith([pc |-> "lib", i |-> 0, up |-> TRUE, stop |-> "none", down |-> <<>>], <<>>)

NextRouter ==
  \/ \E d \in RouterDocs : RouterBuild(d)
  \/ BuildBegin
  \/ BuildLoop
  \/ BuildSort
  \/ \E t \in TaskIds, r \in ReqIds : MatchBegin(t, r)
  \/ \E t \in TaskIds : MatchScan(t)
  \/ \E t \in TaskIds : MatchDefault(t)

\* The router as a library: Build and Match called concurrently
SpecRouter == InitRouter /\ [][NextRouter]_vars

\* The requests of the runs on RuleDocs: /x with and without the header,
\* /ab with and without X-Env
RuleReqs == {1, 2, 5, 6}

NextRules ==
  \/ \E d \in RuleDocs : RouterBuild(d)
  \/ BuildBegin
  \/ BuildLoop
  \/ BuildSort
  \/ \E t \in TaskIds, r \in RuleReqs : MatchBegin(t, r)
  \/ \E t \in TaskIds : MatchScan(t)
  \/ \E t \in TaskIds : MatchDefault(t)

\* The router built from rules of several clauses and of several kinds
SpecRules == InitRouter /\ [][NextRules]_vars

\* ---------------------------------------------------------------- registry
\* The capacity of Registry.eventCh
EventCap == 100

Event(type, svc) == [Type |-> type, Name |-> svc.Name, id |-> svc.id]

\* A send that always finds room
emitEvent_Unbounded(ch, type, svc) == Append(ch, Event(type, svc))

\* Registry.emitEvent on an open channel: a non-blocking send, the event is
\* dropped when the buffer is full
emitEvent(ch, type, svc) ==
  IF Len(ch) < EventCap THEN Append(ch, Event(type, svc)) ELSE ch

\* Registry.emitEvent: a send on the closed channel panics
Emit(type, svc) ==
  /\ eventCh' = IF chClosed THEN eventCh ELSE emitEvent(eventCh, type, svc)
  /\ panicked' = chClosed

\* A caller of doHealthCheck.  dereg and after record that the service was
\* deregistered and how many probe rounds the caller issued since (counted
\* to 2); prev records the status the last SetStatus of the caller replaced;
\* loop tells the goroutine of healthCheckLoop from a HealthCheck call.
Prober(svc, loop) ==
  [svc |-> svc, pc |-> "initial", outcome |-> "", old |-> "", prev |-> "",
   dereg |-> FALSE, after |-> 0, loop |-> loop]

\* The goroutine `go r.healthCheckLoop(service)`
NewProbe(svc) == Prober(svc, TRUE)

HasProbe(svc) == svc.Health # <<>> /\ svc.Health[1].Path # <<>>

\* Registry.Register (the name and the target of every service object here
\* are set, so neither error return is taken)
Register(svc) ==
  /\ services' = (svc.Name :> svc) @@ services
  /\ status' = (svc.id :> "unknown") @@ status
  /\ Emit("ServiceAdded", svc)
  /\ probes' = IF ~chClosed /\ HasProbe(svc)
                 THEN Append(probes, NewProbe(svc)) ELSE probes
  /\ UNCHANGED <<ctxDone, chClosed, nProbes, stopCh>>

\* Registry.Deregister of a registered name
Deregister(name) ==
  /\ ~panicked
  /\ name \in DOMAIN services
  /\ services' = [n \in DOMAIN services \ {name} |-> services[n]]
  /\ Emit("ServiceRemoved", services[name])
  /\ probes' = [k \in 1..Len(probes) |->
                  IF probes[k].svc.id = services[name].id
                    THEN [probes[k] EXCEPT !.dereg = TRUE] ELSE probes[k]]
  /\ UNCHANGED <<status, ctxDone, chClosed, nProbes, nRegs, stopCh, main>>
  /\ UNCHANGED <<config, loads, tasks>>
  /\ UNCHANGED routerVars
  /\ UNCHANGED cfgVars
  /\ UNCHANGED proxyVars
  /\ UNCHANGED exchangeVars

\* What r.client.Do can give: with the registry context cancelled, an error
ProbeOutcomes == IF ctxDone THEN {"error"} ELSE {"2xx", "non2xx", "error"}

\* healthCheckLoop calls doHealthCheck (the initial check, or a tick of the
\* ticker): doHealthCheck to the return of r.client.Do
ProbeDo(k) ==
  /\ ~panicked
  /\ probes[k].pc \in {"initial", "wait"}
  /\ nProbes < MaxProbes
  /\ nProbes' = nProbes + 1
  /\ \E o \in ProbeOutcomes :
       probes' = [probes EXCEPT ![k] =
         [probes[k] EXCEPT
            !.after = IF probes[k].dereg /\ @ < 2 THEN @ + 1 ELSE @,
            !.pc = "resp", !.outcome = o]]
  /\ UNCHANGED <<services, status, eventCh, ctxDone, chClosed, panicked,
                 nRegs, stopCh, main>>
  /\ UNCHANGED <<config, loads, tasks>>
  /\ UNCHANGED routerVars
  /\ UNCHANGED cfgVars
  /\ UNCHANGED proxyVars
  /\ UNCHANGED exchangeVars

\* doHealthCheck with a response: oldStatus := service.GetStatus()
ProbeRead(k) ==
  /\ ~panicked
  /\ probes[k].pc = "resp"
  /\ probes[k].outcome # "error"
  /\ probes' = [probes EXCEPT ![k].pc = "set",
                              ![k].old = status[probes[k].svc.id]]
  /\ UNCHANGED <<services, status, eventCh, ctxDone, chClosed, panicked,
                 nProbes, nRegs, stopCh, main>>
  /\ UNCHANGED <<config, loads, tasks>>
  /\ UNCHANGED routerVars
  /\ UNCHANGED cfgVars
  /\ UNCHANGED proxyVars
  /\ UNCHANGED exchangeVars

\* The status doHealthCheck derives from the outcome of the request
StatusOf(outcome) == IF outcome = "2xx" THEN "healthy" ELSE "unhealthy"

\* doHealthCheck: service.SetStatus, of the error path or of the path with a
\* response
ProbeSet(k) ==
  /\ ~panicked
  /\ \/ probes[k].pc = "set"
     \/ probes[k].pc = "resp" /\ probes[k].outcome = "error"
  /\ status' = [status EXCEPT ![probes[k].svc.id] = StatusOf(probes[k].outcome)]
  /\ probes' = [probes EXCEPT ![k].pc = "emit",
                              ![k].prev = status[probes[k].svc.id]]
  /\ UNCHANGED <<services, eventCh, ctxDone, chClosed, panicked, nProbes,
                 nRegs, stopCh, main>>
  /\ UNCHANGED <<config, loads, tasks>>
  /\ UNCHANGED routerVars
  /\ UNCHANGED cfgVars
  /\ UNCHANGED proxyVars
  /\ UNCHANGED exchangeVars

\* doHealthCheck emits on the error path, and on the other when the status
\* it read differs from the one it set
ProbeEmits(p) == p.outcome = "error" \/ p.old # StatusOf(p.outcome)

\* doHealthCheck: r.emitEvent and the return to the caller
ProbeReturn(k) ==
  /\ ~panicked
  /\ probes[k].pc = "emit"
  /\ \/ /\ ProbeEmits(probes[k])
        /\ Emit("ServiceHealthChanged", probes[k].svc)
     \/ /\ ~ProbeEmits(probes[k])
        /\ UNCHANGED <<eventCh, panicked>>
  /\ probes' = [probes EXCEPT
                  ![k].pc = IF probes[k].loop THEN "wait" ELSE "exited"]
  /\ UNCHANGED <<services, status, ctxDone, chClosed, nProbes, nRegs,
                 stopCh, main>>
  /\ UNCHANGED <<config, loads, tasks>>
  /\ UNCHANGED routerVars
  /\ UNCHANGED cfgVars
  /\ UNCHANGED proxyVars
  /\ UNCHANGED exchangeVars

\* Registry.HealthCheck(name) of a registered service with a health path: the
\* caller runs doHealthCheck itself
HealthCheck(name) ==
  /\ ~panicked
  /\ name \in DOMAIN services
  /\ HasProbe(services[name])
  /\ Len(probes) < MaxProbes
  /\ probes' = Append(probes, Prober(services[name], FALSE))
  /\ UNCHANGED <<services, status, eventCh, ctxDone, chClosed, panicked,
                 nProbes, nRegs, stopCh, main>>
  /\ UNCHANGED <<config, loads, tasks>>
  /\ UNCHANGED routerVars
  /\ UNCHANGED cfgVars
  /\ UNCHANGED proxyVars
  /\ UNCHANGED exchangeVars

\* healthCheckLoop: the select takes <-r.ctx.Done() and the goroutine returns
ProbeExit(k) ==
  /\ ~panicked
  /\ probes[k].pc = "wait"
  /\ ctxDone
  /\ probes' = [probes EXCEPT ![k].pc = "exited"]
  /\ UNCHANGED <<services, status, eventCh, ctxDone, chClosed, panicked,
                 nProbes, nRegs, stopCh, main>>
  /\ UNCHANGED <<config, loads, tasks>>
  /\ UNCHANGED routerVars
  /\ UNCHANGED cfgVars
  /\ UNCHANGED proxyVars
  /\ UNCHANGED exchangeVars

\* Registry.Stop: r.cancel()
StopCancel ==
  /\ ~panicked
  /\ ~ctxDone
  /\ main.pc = "lib" \/ stopCh
  /\ ctxDone' = TRUE
  /\ main' = [main EXCEPT !.stop = "cancelled", !.down = Append(@, "registry")]
  /\ UNCHANGED <<services, status, probes, eventCh, chClosed, panicked,
                 nProbes, nRegs, stopCh>>
  /\ UNCHANGED <<config, loads, tasks>>
  /\ UNCHANGED routerVars
  /\ UNCHANGED cfgVars
  /\ UNCHANGED proxyVars
  /\ UNCHANGED exchangeVars

\* Registry.Stop: r.wg.Wait() returns when no goroutine of healthCheckLoop
\* is left
StopWait ==
  /\ ~panicked
  /\ main.stop = "cancelled"
  /\ \A k \in 1..Len(probes) : probes[k].loop => probes[k].pc = "exited"
  /\ main' = [main EXCEPT !.stop = "waited"]
  /\ UNCHANGED <<services, status, probes, eventCh, ctxDone, chClosed,
                 panicked, nProbes, nRegs, stopCh>>
  /\ UNCHANGED <<config, loads, tasks>>
  /\ UNCHANGED routerVars
  /\ UNCHANGED cfgVars
  /\ UNCHANGED proxyVars
  /\ UNCHANGED exchangeVars

\* Registry.Stop: close(r.eventCh)
StopClose ==
  /\ ~panicked
  /\ main.stop = "waited"
  /\ chClosed' = TRUE
  /\ main' = [main EXCEPT !.stop = "closed"]
  /\ UNCHANGED <<services, status, probes, eventCh, ctxDone, panicked,
                 nProbes, nRegs, stopCh>>
  /\ UNCHANGED <<config, loads, tasks>>
  /\ UNCHANGED routerVars
  /\ UNCHANGED cfgVars
  /\ UNCHANGED proxyVars
  /\ UNCHANGED exchangeVars

\* The service objects handed to a registry used on its own
RegistryPool ==
  LET svcs == LoadResult(DocAB, 0).Services
  IN {svcs[i] : i \in 1..Len(svcs)}

\* Register called directly
RegisterCall(svc) ==
  /\ ~panicked
  /\ nRegs < MaxRegisters
  /\ nRegs' = nRegs + 1
  /\ Register(svc)
  /\ UNCHANGED <<config, loads, tasks, main>>
  /\ UNCHANGED routerVars
  /\ UNCHANGED cfgVars
  /\ UNCHANGED proxyVars
  /\ UNCHANGED exchangeVars

\* The Status of a types.Service nobody set is the empty string
InitRegistry ==
  InitWith([pc |-> "lib", i |-> 0, up |-> TRUE, stop |-> "none", down |-> <<>>],
           [id \in {svc.id : svc \in RegistryPool} |-> ""])

NextRegistry ==
  \/ \E svc \in RegistryPool : RegisterCall(svc)
  \/ \E n \in {svc.Name : svc \in RegistryPool} : Deregister(n)
  \/ \E k \in 1..Len(probes) : ProbeDo(k)
  \/ \E k \in 1..Len(probes) : ProbeRead(k)
  \/ \E k \in 1..Len(probes) : ProbeSet(k)
  \/ \E k \in 1..Len(probes) : ProbeReturn(k)
  \/ \E k \in 1..Len(probes) : ProbeExit(k)
  \/ \E n \in {svc.Name : svc \in RegistryPool} : HealthCheck(n)
  \/ StopCancel
  \/ StopWait
  \/ StopClose

\* The registry as a library: Register, Deregister, the probe goroutines, Stop
SpecRegistry == InitRegistry /\ [][NextRegistry]_vars

\* A registry whose channel nobody reads, after n calls of Register with the
\* service b (no health path, so no goroutine): b is in the map, its status
\* Unknown, and the channel holds the n events.  InitEvents leaves room for
\* one more event
PlainService == CHOOSE svc \in RegistryPool : ~HasProbe(svc)

Backlog(n) == [i \in 1..n |-> Event("ServiceAdded", PlainService)]

InitEvents ==
  /\ InitFrom([pc |-> "lib", i |-> 0, up |-> TRUE, stop |-> "none", down |-> <<>>],
              (PlainService.id :> "unknown")
                @@ [id \in {svc.id : svc \in RegistryPool} |-> ""],
              (PlainService.Name :> PlainService),
              Backlog(EventCap - 1))
  /\ fwd = IdleForward
  /\ sess = IdleSession
  /\ ring = EmptyRing

NextEvents ==
  \/ \E svc \in RegistryPool : RegisterCall(svc)
  \/ \E n \in {svc.Name : svc \in RegistryPool} : Deregister(n)
  \/ \E k \in 1..Len(probes) : ProbeDo(k)
  \/ \E k \in 1..Len(probes) : ProbeRead(k)
  \/ \E k \in 1..Len(probes) : ProbeSet(k)
  \/ \E k \in 1..Len(probes) : ProbeReturn(k)

\* The registry with a backlog of events and no consumer
SpecEvents == InitEvents /\ [][NextEvents]_vars

\* ----------------------------------------------------------------- hz start
\* runStart: config.NewManager loads the file; on an error runStart returns
Boot(d) ==
  /\ main.pc = "boot"
  /\ LET r == LoadResult(d, loads)
     IN \/ /\ r.err # "ok"
           /\ main' = [main EXCEPT !.pc = "exit"]
           /\ UNCHANGED <<config, loads, status>>
        \/ /\ r.err = "ok"
           /\ Publish(r.Services)
           /\ main' = [main EXCEPT !.pc = "register", !.i = 1]
  /\ UNCHANGED <<services, probes, eventCh, ctxDone, chClosed, panicked,
                 nProbes, nRegs, stopCh, tasks>>
  /\ UNCHANGED routerVars
  /\ UNCHANGED cfgVars
  /\ UNCHANGED proxyVars
  /\ UNCHANGED exchangeVars

\* watchLoop on a write event of the file: Manager.Load; on an error the
\* snapshot stays and no listener is called, else the OnReload callback of
\* runStart starts
Reload(d) ==
  /\ ~panicked
  /\ main.pc = "watch"
  /\ ~stopCh
  /\ loads < MaxLoads
  /\ LET r == LoadResult(d, loads)
     IN \/ /\ r.err # "ok"
           /\ UNCHANGED <<config, loads, status, main>>
        \/ /\ r.err = "ok"
           /\ Publish(r.Services)
           /\ main' = [main EXCEPT !.pc = "register", !.i = 1]
  /\ UNCHANGED <<services, probes, eventCh, ctxDone, chClosed, panicked,
                 nProbes, nRegs, stopCh, tasks>>
  /\ UNCHANGED routerVars
  /\ UNCHANGED cfgVars
  /\ UNCHANGED proxyVars
  /\ UNCHANGED exchangeVars

\* reg.RegisterAll(cfg.Services) of runStart and the loop of the OnReload
\* callback: one reg.Register(svc)
RegisterNext ==
  /\ ~panicked
  /\ main.pc = "register"
  /\ main.i <= Len(config[1].Services)
  /\ Register(config[1].Services[main.i])
  /\ main' = [main EXCEPT !.i = @ + 1]
  /\ UNCHANGED <<config, loads, tasks, nRegs>>
  /\ UNCHANGED routerVars
  /\ UNCHANGED cfgVars
  /\ UNCHANGED proxyVars
  /\ UNCHANGED exchangeVars

\* rtr.Build(cfg.Services) of runStart and of the OnReload callback
StartBuild ==
  /\ ~panicked
  /\ main.pc = "register"
  /\ main.i > Len(config[1].Services)
  /\ BuildCall(config[1].Services)
  /\ main' = [main EXCEPT !.pc = "building"]
  /\ UNCHANGED <<config, loads, tasks>>
  /\ UNCHANGED registryVars
  /\ UNCHANGED cfgVars
  /\ UNCHANGED proxyVars
  /\ UNCHANGED exchangeVars

\* A termination signal: runStart calls insp.Stop(), tunnelManager.Stop() and
\* cfgManager.Stop(), which closes stopCh; main.down lists the components in
\* the order runStart has stopped them
Signal ==
  /\ ~panicked
  /\ main.up
  /\ ~stopCh
  /\ stopCh' = TRUE
  /\ main' = [main EXCEPT !.down = <<"inspector", "tunnel", "watcher">>]
  /\ UNCHANGED <<services, status, probes, eventCh, ctxDone, chClosed,
                 panicked, nProbes, nRegs>>
  /\ UNCHANGED <<config, loads, tasks>>
  /\ UNCHANGED routerVars
  /\ UNCHANGED cfgVars
  /\ UNCHANGED proxyVars
  /\ UNCHANGED exchangeVars

\* The requests the proxy is sent
ProgramReqs == {2, 7}

Init == InitWith([pc |-> "boot", i |-> 0, up |-> FALSE, stop |-> "none", down |-> <<>>], <<>>)

Next ==
  \/ \E d \in ProgramDocs : Boot(d)
  \/ \E d \in ProgramDocs : Reload(d)
  \/ RegisterNext
  \/ StartBuild
  \/ BuildBegin
  \/ BuildLoop
  \/ BuildSort
  \/ \E t \in TaskIds, r \in ProgramReqs : main.up /\ MatchBegin(t, r)
  \/ \E t \in TaskIds : MatchScan(t)
  \/ \E t \in TaskIds : MatchDefault(t)
  \/ \E k \in 1..Len(probes) : ProbeDo(k)
  \/ \E k \in 1..Len(probes) : ProbeRead(k)
  \/ \E k \in 1..Len(probes) : ProbeSet(k)
  \/ \E k \in 1..Len(probes) : ProbeReturn(k)

\* `hz start` up to a termination signal: boot, the proxy serving requests,
\* the probe goroutines, the config watcher reloading
Spec == Init /\ [][Next]_vars

NextServe ==
  \/ \E d \in ProgramDocs : Boot(d)
  \/ \E d \in ProgramDocs : Reload(d)
  \/ RegisterNext
  \/ StartBuild
  \/ BuildBegin
  \/ BuildLoop
  \/ BuildSort
  \/ \E t \in TaskIds, r \in ReqIds : main.up /\ MatchBegin(t, r)
  \/ \E t \in TaskIds : MatchScan(t)
  \/ \E t \in TaskIds : MatchDefault(t)

\* `hz start` seen from the config manager, the OnReload callback and the
\* router: the probe goroutines are started and take no step (they touch
\* neither the snapshot nor the route table)
SpecServe == Init /\ [][NextServe]_vars

\* runStart: server.Shutdown(shutdownCtx) after reg.Stop() has returned; the
\* listener takes no new request
ServerShutdown ==
  /\ ~panicked
  /\ stopCh
  /\ main.stop = "closed"
  /\ main.up
  /\ main' = [main EXCEPT !.up = FALSE, !.down = Append(@, "server")]
  /\ UNCHANGED <<config, loads, tasks>>
  /\ UNCHANGED routerVars
  /\ UNCHANGED registryVars
  /\ UNCHANGED cfgVars
  /\ UNCHANGED proxyVars
  /\ UNCHANGED exchangeVars

NextShutdown ==
  \/ Next
  \/ Signal
  \/ StopCancel
  \/ StopWait
  \/ StopClose
  \/ ServerShutdown
  \/ \E k \in 1..Len(probes) : ProbeExit(k)

\* `hz start` with the shutdown that follows a termination signal
SpecShutdown == Init /\ [][NextShutdown]_vars

\* ---------------------------------------------------------- config manager
\* Manager.Load stores the configuration it parsed (m.config = config) only
\* when no step returned an error; the mutant stores it whatever happened
Stored_Always(r) == TRUE

Stored(r) == r.err = "ok"

\* watchLoop calls the listeners unless Load returned an error (`continue`);
\* the mutant calls them whatever happened
Notifies_Always(r) == TRUE

Notifies(r) == r.err = "ok"

\* An entry of the record of what the manager did.  op is "new" (the Load of
\* NewManager), "reload" (a Load of watchLoop), "call" (watchLoop calls
\* listener n with the snapshot gen) or "write" (the file is written; n = 1
\* when the watcher is in the 100 ms sleep that followed an earlier write).
LogEntry(op, err, gen, n, doc) ==
  [op |-> op, err |-> err, gen |-> gen, n |-> n, doc |-> doc]

\* Manager.Load of the document in the file: whether a snapshot is stored
LoadStep(d, op) ==
  LET r == LoadResult(d, loads)
  IN /\ cfgLog' = Append(cfgLog,
          LogEntry(op, r.err, IF Stored(r) THEN loads + 1 ELSE 0, 0, d))
     /\ IF Stored(r) THEN Publish(r.Services)
        ELSE UNCHANGED <<config, loads, status>>

\* config.NewManager(path) on a file that holds document d
NewManager(d) ==
  /\ main.pc = "new"
  /\ file' = d
  /\ LoadStep(d, "new")
  /\ main' = [main EXCEPT
       !.pc = IF LoadResult(d, loads).err = "ok" THEN "watch" ELSE "exit"]
  /\ UNCHANGED <<services, probes, eventCh, ctxDone, chClosed, panicked,
                 nProbes, nRegs, stopCh, tasks, events>>
  /\ UNCHANGED routerVars
  /\ UNCHANGED proxyVars
  /\ UNCHANGED exchangeVars

WritesSoFar == Cardinality({i \in 1..Len(cfgLog) : cfgLog[i].op = "write"})

\* The configuration file is written: fsnotify queues a Write event
WriteFile(d) ==
  /\ main.pc \in {"watch", "sleep", "notify"}
  /\ WritesSoFar < MaxWrites
  /\ file' = d
  /\ events' = events + 1
  /\ cfgLog' = Append(cfgLog,
       LogEntry("write", "", 0, IF main.pc = "sleep" THEN 1 ELSE 0, <<>>))
  /\ UNCHANGED <<config, loads, status, main>>
  /\ UNCHANGED <<services, probes, eventCh, ctxDone, chClosed, panicked,
                 nProbes, nRegs, stopCh, tasks>>
  /\ UNCHANGED routerVars
  /\ UNCHANGED proxyVars
  /\ UNCHANGED exchangeVars

\* watchLoop receives a Write event of the file and starts its 100 ms sleep
WatchEvent ==
  /\ main.pc = "watch"
  /\ events > 0
  /\ events' = events - 1
  /\ main' = [main EXCEPT !.pc = "sleep"]
  /\ UNCHANGED <<config, loads, status, file, cfgLog>>
  /\ UNCHANGED <<services, probes, eventCh, ctxDone, chClosed, panicked,
                 nProbes, nRegs, stopCh, tasks>>
  /\ UNCHANGED routerVars
  /\ UNCHANGED proxyVars
  /\ UNCHANGED exchangeVars

\* watchLoop after the sleep: m.Load(); on an error it logs and continues
WatchLoad ==
  /\ main.pc = "sleep"
  /\ LoadStep(file, "reload")
  /\ main' = IF Notifies(LoadResult(file, loads))
               THEN [main EXCEPT !.pc = "notify", !.i = 1]
               ELSE [main EXCEPT !.pc = "watch"]
  /\ UNCHANGED <<services, probes, eventCh, ctxDone, chClosed, panicked,
                 nProbes, nRegs, stopCh, tasks, file, events>>
  /\ UNCHANGED routerVars
  /\ UNCHANGED proxyVars
  /\ UNCHANGED exchangeVars

\* watchLoop: config := m.Get(), then one iteration of the loop over
\* m.listeners
NotifyNext ==
  /\ main.pc = "notify"
  /\ cfgLog' = Append(cfgLog,
       LogEntry("call", "", IF config = <<>> THEN 0 ELSE config[1].gen,
                main.i, <<>>))
  /\ main' = IF main.i < MaxListeners THEN [main EXCEPT !.i = @ + 1]
               ELSE [main EXCEPT !.pc = "watch", !.i = 0]
  /\ UNCHANGED <<config, loads, status, file, events>>
  /\ UNCHANGED <<services, probes, eventCh, ctxDone, chClosed, panicked,
                 nProbes, nRegs, stopCh, tasks>>
  /\ UNCHANGED routerVars
  /\ UNCHANGED proxyVars
  /\ UNCHANGED exchangeVars

InitConfig == InitWith([pc |-> "new", i |-> 0, up |-> FALSE, stop |-> "none", down |-> <<>>], <<>>)

NextConfig ==
  \/ \E d \in ConfigDocs : NewManager(d)
  \/ \E d \in ConfigDocs : WriteFile(d)
  \/ WatchEvent
  \/ WatchLoad
  \/ NotifyNext

\* The config manager on its own: NewManager, OnReload, Watch, and writes of
\* the file
SpecConfig == InitConfig /\ [][NextConfig]_vars

\* -------------------------------------------------------------------- proxy
Count(f, id) == IF id \in DOMAIN f THEN f[id] ELSE 0

\* Service.IncrementRequests, Service.IncrementErrors on the counter map
Incr(f, id) == (id :> (Count(f, id) + 1)) @@ f

\* The headers of a WebSocket upgrade request
UpgradeHeaders ==
  << <<CanonicalHeaderKey(<<"u", "p", "g", "r", "a", "d", "e">>),
       <<"w", "e", "b", "s", "o", "c", "k", "e", "t">>>>,
     <<CanonicalHeaderKey(<<"c", "o", "n", "n", "e", "c", "t", "i", "o", "n">>),
       <<"U", "p", "g", "r", "a", "d", "e">>>> >>

\* Proxy.isWebSocketRequest
isWebSocketRequest(header) ==
  /\ ToLower(HeaderGet(header, <<"U", "p", "g", "r", "a", "d", "e">>))
       = <<"w", "e", "b", "s", "o", "c", "k", "e", "t">>
  /\ Contains(ToLower(HeaderGet(header,
                <<"C", "o", "n", "n", "e", "c", "t", "i", "o", "n">>)),
              <<"u", "p", "g", "r", "a", "d", "e">>)

\* The errors the transport (or the WebSocket dial) hands to the error
\* handler: io.EOF, a net.Error whose Timeout() is true, a net.Error whose
\* Timeout() is false, an error that is no net.Error
TransportErrors == {"EOF", "timeout", "refused", "other"}

IsNetError(e) == e \in {"timeout", "refused"}

NetTimeout(e) == e = "timeout"

\* An error handler that answers every error with 502
defaultErrorHandler_Always502(e) == 502

\* Proxy.defaultErrorHandler: the status it writes
defaultErrorHandler(e) ==
  IF e = "EOF" THEN 502
  ELSE IF IsNetError(e) /\ NetTimeout(e) THEN 504
  ELSE 502

\* The inspector.Request captureRequest builds
Captured(code, err, name) == [StatusCode |-> code, Error |-> err, Service |-> name]

\* fmt.Errorf("no matching route found")
NoRouteText ==
  <<"n", "o", " ", "m", "a", "t", "c", "h", "i", "n", "g", " ">>
  \o <<"r", "o", "u", "t", "e", " ", "f", "o", "u", "n", "d">>

\* A route-less request that leaves no record
NoRouteCapture_None(ws) == <<>>

\* What the route-less path records: ServeHTTP calls captureRequest with
\* status 0 and the error; HandleWebSocket records nothing
NoRouteCapture(ws) ==
  IF ws THEN <<>> ELSE <<Captured(0, NoRouteText, "")>>

\* A return of ServeHTTP that leaves the counter of active requests alone
ServeReturn_Kept(st) == st

\* The deferred atomic.AddInt64(&p.stats.ActiveRequests, -1) of ServeHTTP
ServeReturn(st) == [st EXCEPT !.ActiveRequests = @ - 1]

\* withRoute: the request context of the handler holds the route
withRoute(h, route) == [h EXCEPT !.route = route]

\* A lookup that asks the table of the moment for the route of the request
routeFromContext_Table(h) ==
  LET hit == ScanRoutes(routes, Requests[h.req], 1)
  IN IF hit # <<>> THEN hit ELSE defaultRoute

\* routeFromContext: the route stored in the request context, or nil
routeFromContext(h) == h.route

\* Proxy.ServeHTTP to the read lock of Router.Match (for an upgrade request
\* through HandleWebSocket): counts the request
ServeBegin(t, r, extra) ==
  /\ handlers[t].pc \in {"idle", "done"}
  /\ stats.TotalRequests < MaxRequests
  /\ MatchLock(t, r)
  /\ stats' = [stats EXCEPT !.TotalRequests = @ + 1, !.ActiveRequests = @ + 1]
  /\ handlers' = [handlers EXCEPT ![t] =
       [IdleHandler EXCEPT
          !.pc = "match", !.req = r,
          !.ws = isWebSocketRequest(Requests[r].Header \o extra)]]
  /\ UNCHANGED exchangeVars

\* Match returned nil: ServeHTTP captures the request and calls the error
\* handler; HandleWebSocket only calls the error handler
ServeNoRoute(t) ==
  /\ ~panicked
  /\ handlers[t].pc = "match"
  /\ tasks[t].pc = "done"
  /\ tasks[t].result = <<>>
  /\ handlers' = [handlers EXCEPT
       ![t].pc = "done",
       ![t].code = defaultErrorHandler("other"),
       ![t].captured = NoRouteCapture(handlers[t].ws)]
  /\ stats' = ServeReturn([stats EXCEPT !.Rejected = @ + 1])
  /\ UNCHANGED <<config, loads, tasks, main>>
  /\ UNCHANGED routerVars
  /\ UNCHANGED registryVars
  /\ UNCHANGED cfgVars
  /\ UNCHANGED exchangeVars

\* ServeHTTP with a route: route.Service.IncrementRequests()
ServeForward(t) ==
  /\ ~panicked
  /\ handlers[t].pc = "match"
  /\ tasks[t].pc = "done"
  /\ tasks[t].result # <<>>
  /\ ~handlers[t].ws
  /\ stats' = [stats EXCEPT
       !.RequestCount = Incr(@, tasks[t].result[1].Service.id)]
  /\ handlers' = [handlers EXCEPT
       ![t] = [withRoute(handlers[t], tasks[t].result) EXCEPT !.pc = "upstream"]]
  /\ UNCHANGED <<config, loads, tasks, main>>
  /\ UNCHANGED routerVars
  /\ UNCHANGED registryVars
  /\ UNCHANGED cfgVars
  /\ UNCHANGED exchangeVars

\* The target the director sets on the outgoing request: that of the route
\* in the request context, nothing when the context holds none
Directed(ctxRoute) ==
  IF ctxRoute = <<>> THEN <<>> ELSE <<ctxRoute[1].Service.Target>>

\* p.reverseProxy.ServeHTTP: the director, then the response of the upstream
\* or a transport error handled by handleProxyError (both read the route
\* from the request context); then captureRequest with the route ServeHTTP
\* holds
ServeUpstream(t) ==
  /\ ~panicked
  /\ handlers[t].pc = "upstream"
  /\ LET svc == tasks[t].result[1].Service
         ctxRoute == routeFromContext(handlers[t])
     IN \/ /\ handlers' = [handlers EXCEPT
                ![t].pc = "done", ![t].code = 200,
                ![t].target = Directed(ctxRoute),
                ![t].captured = <<Captured(200, <<>>, svc.Name)>>]
           /\ stats' = ServeReturn(stats)
        \/ \E e \in TransportErrors :
             /\ stats' = ServeReturn([stats EXCEPT
                  !.TotalErrors = @ + 1,
                  !.ErrorCount = IF ctxRoute = <<>> THEN @
                                 ELSE Incr(@, ctxRoute[1].Service.id)])
             /\ handlers' = [handlers EXCEPT
                  ![t].pc = "done", ![t].err = <<e>>,
                  ![t].code = defaultErrorHandler(e),
                  ![t].target = Directed(ctxRoute),
                  ![t].captured =
                     <<Captured(defaultErrorHandler(e), <<>>, svc.Name)>>]
  /\ UNCHANGED <<config, loads, tasks, main>>
  /\ UNCHANGED routerVars
  /\ UNCHANGED registryVars
  /\ UNCHANGED cfgVars
  /\ UNCHANGED exchangeVars

\* HandleWebSocket with a route: the dial of the backend fails and the error
\* handler answers, or the connection is upgraded
ServeWebSocket(t) ==
  /\ ~panicked
  /\ handlers[t].pc = "match"
  /\ tasks[t].pc = "done"
  /\ tasks[t].result # <<>>
  /\ handlers[t].ws
  /\ \/ handlers' = [handlers EXCEPT ![t].pc = "done", ![t].code = 101]
     \/ \E e \in TransportErrors :
          handlers' = [handlers EXCEPT
             ![t].pc = "done", ![t].err = <<e>>,
             ![t].code = defaultErrorHandler(e)]
  /\ stats' = ServeReturn(stats)
  /\ UNCHANGED <<config, loads, tasks, main>>
  /\ UNCHANGED routerVars
  /\ UNCHANGED registryVars
  /\ UNCHANGED cfgVars
  /\ UNCHANGED exchangeVars

\* The snapshots and the requests of the proxy runs
ProxyDocs == {DocA, DocAB}

ProxyReqs == {2, 7, 8}

\* The request of the library runs: /b/x, routed by a rule under DocAB and
\* by the default under DocA
LibraryReqs == {7}

InitProxy == InitWith([pc |-> "lib", i |-> 0, up |-> TRUE, stop |-> "none", down |-> <<>>], <<>>)

NextProxy ==
  \/ \E d \in ProxyDocs : RouterBuild(d)
  \/ BuildBegin
  \/ BuildLoop
  \/ BuildSort
  \/ \E t \in TaskIds, r \in LibraryReqs, x \in {<<>>, UpgradeHeaders} :
       ServeBegin(t, r, x)
  \/ \E t \in TaskIds : MatchScan(t)
  \/ \E t \in TaskIds : MatchDefault(t)
  \/ \E t \in TaskIds : ServeNoRoute(t)
  \/ \E t \in TaskIds : ServeForward(t)
  \/ \E t \in TaskIds : ServeUpstream(t)
  \/ \E t \in TaskIds : ServeWebSocket(t)

\* The proxy as a library: proxy.New on a router that is built, and built
\* again, while requests are served
SpecProxy == InitProxy /\ [][NextProxy]_vars

NextStartProxy ==
  \/ \E d \in ProxyDocs : Boot(d)
  \/ \E d \in ProxyDocs : Reload(d)
  \/ RegisterNext
  \/ StartBuild
  \/ BuildBegin
  \/ BuildLoop
  \/ BuildSort
  \/ \E t \in TaskIds, r \in ProxyReqs, x \in {<<>>, UpgradeHeaders} :
       main.up /\ ServeBegin(t, r, x)
  \/ \E t \in TaskIds : MatchScan(t)
  \/ \E t \in TaskIds : MatchDefault(t)
  \/ \E t \in TaskIds : ServeForward(t)
  \/ \E t \in TaskIds : ServeUpstream(t)
  \/ \E t \in TaskIds : ServeWebSocket(t)

\* `hz start` with the proxy serving requests and the watcher reloading (the
\* probe goroutines take no step; every snapshot has a default, so no
\* request is left without a route)
SpecStartProxy == Init /\ [][NextStartProxy]_vars

\* ------------------------------------------------- proxy: rewrite, director
\* types.RewriteConfig
RewriteConfig(strip, prefix, replace) ==
  [StripPrefix |-> strip, Prefix |-> prefix, Replace |-> replace]

\* A rewrite that adds the prefix before it strips
RewriteURL_PrefixFirst(path, rewrite) ==
  IF rewrite = <<>> THEN path
  ELSE LET rw == rewrite[1]
           p1 == IF rw.Prefix # <<>> /\ ~HasPrefix(path, rw.Prefix)
                 THEN rw.Prefix \o path ELSE path
           t == TrimPrefix(p1, rw.StripPrefix)
           p2 == IF rw.StripPrefix = <<>> THEN p1
                 ELSE IF HasPrefix(t, <<"/">>) THEN t ELSE <<"/">> \o t
       IN IF rw.Replace # <<>> THEN rw.Replace ELSE p2

\* router.RewriteURL: req.URL.Path as it leaves it; rewrite is the pointer
\* Service.Rewrite
RewriteURL(path, rewrite) ==
  IF rewrite = <<>> THEN path
  ELSE LET rw == rewrite[1]
           t == TrimPrefix(path, rw.StripPrefix)
           p1 == IF rw.StripPrefix = <<>> THEN path
                 ELSE IF HasPrefix(t, <<"/">>) THEN t ELSE <<"/">> \o t
           p2 == IF rw.Prefix # <<>> /\ ~HasPrefix(p1, rw.Prefix)
                 THEN rw.Prefix \o p1 ELSE p1
       IN IF rw.Replace # <<>> THEN rw.Replace ELSE p2

\* http.Header.Get and http.Header.Set on a header held as a map
HGet(h, k) == IF k \in DOMAIN h THEN h[k] ELSE <<>>

HSet(h, k, v) == (k :> v) @@ h

RECURSIVE SetAll(_, _)
\* The loop of the director over route.Service.Headers
SetAll(h, extra) ==
  IF DOMAIN extra = {} THEN h
  ELSE LET k == CHOOSE x \in DOMAIN extra : TRUE
       IN SetAll(HSet(h, k, extra[k]), [y \in DOMAIN extra \ {k} |-> extra[y]])

\* Proxy.director on a request with a route: the request it leaves. A header
\* value is a list of the parts joined by ", "; RemoteAddr is <<host, port>>,
\* or <<>> when net.SplitHostPort fails on it
director(req, svc) ==
  LET target == svc.TargetURL
      r1 == [req EXCEPT !.Scheme = target.Scheme, !.URLHost = target.Host,
                        !.Host = target.Host]
      prior == HGet(r1.Header, "X-Forwarded-For")
      h1 == IF r1.RemoteAddr # <<>>
            THEN HSet(r1.Header, "X-Forwarded-For", prior \o <<r1.RemoteAddr[1]>>)
            ELSE r1.Header
      h2 == HSet(h1, "X-Forwarded-Host", <<r1.Host>>)
      h3 == HSet(h2, "X-Forwarded-Proto", <<"http">>)
  IN [r1 EXCEPT !.Header = SetAll(h3, svc.Headers)]

\* The request paths, the rewrites and the services of the forwarding runs
PathApiUsers42 == <<"/", "a", "p", "i", "/", "u", "s", "e", "r", "s", "/", "4", "2">>
PathApi == <<"/", "a", "p", "i">>
PathApiary == <<"/", "a", "p", "i", "a", "r", "y">>
PathUsers42 == <<"/", "u", "s", "e", "r", "s", "/", "4", "2">>
PathV1 == <<"/", "v", "1">>
PathV1Users == <<"/", "v", "1", "/", "u", "s", "e", "r", "s">>
PathRoot == <<"/">>
PathR == <<"/", "r">>

\* "" is the path of a request line in absolute form without a path
ForwardPaths ==
  {PathApiUsers42, PathApi, PathApiary, PathUsers42, PathV1Users, PathRoot, <<>>}

Rewrites ==
  {<<>>} \cup
  {<<RewriteConfig(x, p, r)>> :
     x \in {<<>>, PathApi, PathV1}, p \in {<<>>, PathV1}, r \in {<<>>, PathR}}

TargetURLs ==
  {[Scheme |-> "http", Host |-> "127.0.0.1:5000"],
   [Scheme |-> "https", Host |-> "api.internal"]}

ForwardServices ==
  {[TargetURL |-> u, Rewrite |-> rw, Headers |-> h] :
     u \in TargetURLs, rw \in Rewrites, h \in {<<>>, [e \in {"X-Env"} |-> <<"s">>]}}

InboundRequests ==
  {[Host |-> host, Path |-> p, Scheme |-> "", URLHost |-> "",
    RemoteAddr |-> ra, Header |-> h] :
     host \in {"app.test"}, p \in ForwardPaths,
     ra \in {<<"10.0.0.9", "51000">>, <<>>},
     h \in {<<>>, [e \in {"X-Forwarded-For"} |-> <<"10.0.0.1">>]}}

\* ServeHTTP: router.RewriteURL(r, route.Service.Rewrite)
Rewrite ==
  /\ fwd.pc = "in"
  /\ fwd' = [fwd EXCEPT !.pc = "rewritten",
                        !.req.Path = RewriteURL(@, fwd.svc.Rewrite)]
  /\ UNCHANGED <<config, loads, tasks, main>>
  /\ UNCHANGED routerVars
  /\ UNCHANGED registryVars
  /\ UNCHANGED cfgVars
  /\ UNCHANGED proxyVars
  /\ UNCHANGED <<sess, ring>>

\* RewriteURL applied to the request it has already rewritten
RewriteAgain ==
  /\ fwd.pc = "rewritten"
  /\ fwd' = [fwd EXCEPT !.pc = "twice", !.once = fwd.req.Path,
                        !.req.Path = RewriteURL(@, fwd.svc.Rewrite)]
  /\ UNCHANGED <<config, loads, tasks, main>>
  /\ UNCHANGED routerVars
  /\ UNCHANGED registryVars
  /\ UNCHANGED cfgVars
  /\ UNCHANGED proxyVars
  /\ UNCHANGED <<sess, ring>>

\* reverseProxy.ServeHTTP: the director prepares the outgoing request
Direct ==
  /\ fwd.pc = "rewritten"
  /\ fwd' = [fwd EXCEPT !.pc = "sent", !.req = director(@, fwd.svc)]
  /\ UNCHANGED <<config, loads, tasks, main>>
  /\ UNCHANGED routerVars
  /\ UNCHANGED registryVars
  /\ UNCHANGED cfgVars
  /\ UNCHANGED proxyVars
  /\ UNCHANGED <<sess, ring>>

InitForward ==
  /\ InitState([pc |-> "lib", i |-> 0, up |-> TRUE, stop |-> "none", down |-> <<>>], <<>>)
  /\ fwd \in {[pc |-> "in", in |-> r, svc |-> svc, req |-> r, once |-> <<>>] :
               r \in InboundRequests, svc \in ForwardServices}
  /\ sess = IdleSession
  /\ ring = EmptyRing

NextForward ==
  \/ Rewrite
  \/ RewriteAgain
  \/ Direct

\* One request with a route on its way through RewriteURL and the director
SpecForward == InitForward /\ [][NextForward]_vars

\* ------------------------------------------------- proxy: WebSocket session
\* make(chan error, 2)
ErrChanCap == 2

Directions == {"c2b", "b2c"}

\* The data messages ReadMessage returns: the type and the payload
Frames ==
  {[type |-> "text", payload |-> "hello"],
   [type |-> "binary", payload |-> "0102"]}

\* copyWebSocket(backendConn, clientConn) reads the client connection,
\* copyWebSocket(clientConn, backendConn) the backend connection
SrcConn(d) == IF d = "c2b" THEN sess.client ELSE sess.backend

DstConn(d) == IF d = "c2b" THEN sess.backend ELSE sess.client

\* The peer at the far end of the connection is still there
SrcPeer(d) == IF d = "c2b" THEN sess.peerC ELSE sess.peerB

DstPeer(d) == IF d = "c2b" THEN sess.peerB ELSE sess.peerC

\* A write that puts the message in front of what was delivered
Deliver_Front(got, msg) == <<msg>> \o got

\* dst.WriteMessage(msgType, msg): the peer receives the message
Deliver(got, msg) == Append(got, msg)

\* A read that a Close of its own connection does not interrupt
ReadFails_PeerOnly(d) == sess.queue[d] = <<>> /\ ~SrcPeer(d)

\* src.ReadMessage returns an error: the connection was closed by the
\* handler, or the peer is gone and nothing is left to read
ReadFails(d) ==
  \/ SrcConn(d) = "closed"
  \/ sess.queue[d] = <<>> /\ ~SrcPeer(d)

SessionOnly ==
  /\ UNCHANGED <<config, loads, tasks, main, fwd, ring>>
  /\ UNCHANGED routerVars
  /\ UNCHANGED registryVars
  /\ UNCHANGED cfgVars
  /\ UNCHANGED proxyVars

\* HandleWebSocket: WebSocketConns + 1, then Router.Match
WsEnter ==
  /\ sess.pc = "idle"
  /\ sess' = [sess EXCEPT !.pc = "route", !.conns = @ + 1]
  /\ SessionOnly

\* No route: the error handler answers
WsNoRoute ==
  /\ sess.pc = "route"
  /\ sess' = [sess EXCEPT !.pc = "leave", !.code = defaultErrorHandler("other")]
  /\ SessionOnly

\* dialer.Dial: an error, answered by the error handler, or the connection
\* to the backend
WsDial ==
  /\ sess.pc = "route"
  /\ \/ \E e \in TransportErrors :
          sess' = [sess EXCEPT !.pc = "leave", !.code = defaultErrorHandler(e)]
     \/ sess' = [sess EXCEPT !.pc = "upgrade", !.backend = "open"]
  /\ SessionOnly

\* wsUpgrader.Upgrade: an error and return, or the client connection and the
\* two copier goroutines
WsUpgrade ==
  /\ sess.pc = "upgrade"
  /\ \/ sess' = [sess EXCEPT !.pc = "closeBackend"]
     \/ sess' = [sess EXCEPT
          !.pc = "wait", !.client = "open", !.code = 101,
          !.copier = [d \in Directions |-> [pc |-> "read", msg |-> <<>>]]]
  /\ SessionOnly

\* The client (c2b) or the upstream (b2c) sends a message
PeerSend(d, f) ==
  /\ SrcConn(d) = "open"
  /\ SrcPeer(d)
  /\ Len(sess.sent[d]) < MaxFrames
  /\ sess' = [sess EXCEPT !.sent[d] = Append(@, f), !.queue[d] = Append(@, f)]
  /\ SessionOnly

\* The client (c2b) or the upstream (b2c) closes its end or is lost
PeerClose(d) ==
  /\ SrcConn(d) = "open"
  /\ SrcPeer(d)
  /\ sess' = IF d = "c2b" THEN [sess EXCEPT !.peerC = FALSE]
                          ELSE [sess EXCEPT !.peerB = FALSE]
  /\ SessionOnly

\* copyWebSocket: src.ReadMessage returns a message or an error; without
\* either it blocks
CopierRead(d) ==
  /\ sess.copier[d].pc = "read"
  /\ IF ReadFails(d)
       THEN sess' = [sess EXCEPT !.copier[d].pc = "report"]
       ELSE /\ sess.queue[d] # <<>>
            /\ sess' = [sess EXCEPT !.copier[d] = [pc |-> "write", msg |-> Head(sess.queue[d])],
                                    !.queue[d] = Tail(@)]
  /\ SessionOnly

\* copyWebSocket: dst.WriteMessage delivers or returns an error; a message
\* written to a peer that is gone may be lost without an error
CopierWrite(d) ==
  /\ sess.copier[d].pc = "write"
  /\ IF DstConn(d) = "closed"
       THEN sess' = [sess EXCEPT !.copier[d].pc = "report"]
       ELSE IF ~DstPeer(d)
         THEN \/ sess' = [sess EXCEPT !.copier[d].pc = "report"]
              \/ sess' = [sess EXCEPT !.copier[d] = [pc |-> "read", msg |-> <<>>]]
         ELSE sess' = [sess EXCEPT
                !.recv[d] = Deliver(@, sess.copier[d].msg),
                !.copier[d] = [pc |-> "read", msg |-> <<>>]]
  /\ SessionOnly

\* errChan <- the error copyWebSocket returned; the goroutine ends
CopierReport(d) ==
  /\ sess.copier[d].pc = "report"
  /\ sess.errChan < ErrChanCap
  /\ sess' = [sess EXCEPT !.copier[d].pc = "exited", !.errChan = @ + 1]
  /\ SessionOnly

\* <-errChan
WsReceive ==
  /\ sess.pc = "wait"
  /\ sess.errChan > 0
  /\ sess' = [sess EXCEPT !.pc = "closeClient", !.errChan = @ - 1]
  /\ SessionOnly

\* The deferred calls, last registered first: clientConn.Close()
WsCloseClient ==
  /\ sess.pc = "closeClient"
  /\ sess' = [sess EXCEPT !.pc = "closeBackend", !.client = "closed"]
  /\ SessionOnly

\* backendConn.Close()
WsCloseBackend ==
  /\ sess.pc = "closeBackend"
  /\ sess' = [sess EXCEPT !.pc = "leave", !.backend = "closed"]
  /\ SessionOnly

\* WebSocketConns - 1, and HandleWebSocket returns
WsLeave ==
  /\ sess.pc = "leave"
  /\ sess' = [sess EXCEPT !.pc = "returned", !.conns = @ - 1]
  /\ SessionOnly

NextSession ==
  \/ WsEnter
  \/ WsNoRoute
  \/ WsDial
  \/ WsUpgrade
  \/ \E d \in Directions, f \in Frames : PeerSend(d, f)
  \/ \E d \in Directions : PeerClose(d)
  \/ \E d \in Directions : CopierRead(d)
  \/ \E d \in Directions : CopierWrite(d)
  \/ \E d \in Directions : CopierReport(d)
  \/ WsReceive
  \/ WsCloseClient
  \/ WsCloseBackend
  \/ WsLeave

\* One upgrade request from HandleWebSocket to its return
SpecSession == InitRouter /\ [][NextSession]_vars

\* The goroutines of the session are scheduled: the handler and each copier
\* take the step they are ready for
SessionFairness ==
  /\ \A d \in Directions :
       /\ WF_vars(CopierRead(d))
       /\ WF_vars(CopierWrite(d))
       /\ WF_vars(CopierReport(d))
  /\ WF_vars(WsReceive)
  /\ WF_vars(WsCloseClient)
  /\ WF_vars(WsCloseBackend)
  /\ WF_vars(WsLeave)

SpecSessionLive == SpecSession /\ SessionFairness

\* ---------------------------------------------------------------- inspector
\* Inspector.maxSize as inspector.New sets it
MaxSize == 100

\* A ring that is never cut
Trim_None(reqs, n) == reqs

\* i.requests[:i.maxSize] when the ring is longer than maxSize
Trim(reqs, n) == IF Len(reqs) > n THEN SubSeq(reqs, 1, n) ELSE reqs

InspectorOnly ==
  /\ UNCHANGED <<config, loads, tasks, main, fwd, sess>>
  /\ UNCHANGED routerVars
  /\ UNCHANGED registryVars
  /\ UNCHANGED cfgVars
  /\ UNCHANGED proxyVars

\* Inspector.Capture under i.mu: the next id, the record in front, the ring
\* cut to maxSize
Recorded(r, req) ==
  LET seq == r.requestSeq + 1
      rec == [req EXCEPT !.ID = <<"req", seq>>]
  IN [r EXCEPT !.requests = Trim(<<rec>> \o r.requests, MaxSize),
               !.requestSeq = seq]

\* Inspector.Capture with no client connected: the loop over i.clients has
\* nothing to do
Capture(req) ==
  /\ ring.requestSeq < MaxCaptures
  /\ ring.clients = {}
  /\ ring.mu = 0
  /\ ring' = Recorded(ring, req)
  /\ InspectorOnly

\* A clear that starts the ids again
Cleared_Reset(r) == [r EXCEPT !.requests = <<>>, !.requestSeq = 0]

\* handleClear under i.mu: i.requests = i.requests[:0]
Cleared(r) == [r EXCEPT !.requests = <<>>]

\* Inspector.handleClear: a POST empties the ring, another method is refused
handleClear(method) ==
  /\ method = "POST" => ring.mu = 0
  /\ ring' = IF method = "POST" THEN Cleared(ring) ELSE ring
  /\ InspectorOnly

\* The record the proxy hands over for an answered request
CaptureInputs == {[ID |-> <<>>, StatusCode |-> 200, Error |-> <<>>]}

NextInspector ==
  \/ \E req \in CaptureInputs : Capture(req)
  \/ \E m \in {"POST", "GET"} : handleClear(m)

\* The inspector on its own: captures and clears in any order
SpecInspector == InitRouter /\ [][NextInspector]_vars

\* ------------------------------------------------- inspector: live stream
\* The buffer of the channel handleSSE makes
ChanCap == 10

\* Capture is called: the caller is at i.mu.Lock()
CaptureCall(c) ==
  /\ ring.cap[c].pc = "idle"
  /\ ring.requestSeq
       + Cardinality({d \in CapIds : ring.cap[d].pc = "called"}) < MaxOffers
  /\ ring' = [ring EXCEPT !.cap[c].pc = "called"]
  /\ InspectorOnly

\* Capture from i.mu.Lock() to i.mu.Unlock(): needs the lock no reader holds
CaptureRing(c, req) ==
  /\ ring.cap[c].pc = "called"
  /\ ring.mu = 0
  /\ ring' = [Recorded(ring, req) EXCEPT
                !.cap[c] = [pc |-> "unlocked", rec |-> ring.requestSeq + 1,
                            left |-> {}]]
  /\ InspectorOnly

\* Capture: i.clientsMu.RLock(), the range over i.clients starts
CaptureRLock(c) ==
  /\ ring.cap[c].pc = "unlocked"
  /\ ring' = [ring EXCEPT !.clientsMu = @ + 1,
                          !.cap[c].pc = "notify",
                          !.cap[c].left = ring.clients]
  /\ InspectorOnly

\* A send that gives up although the buffer has room
Offer_Skip(sub, id) == [sub EXCEPT !.lost = @ \cup {id}]

\* select { case ch <- req: default: } on an open channel: the record is
\* queued when the buffer has room and skipped when it is full
Offer(sub, id) ==
  IF Len(sub.buf) < ChanCap
    THEN [sub EXCEPT !.buf = Append(@, id), !.got = @ \cup {id}]
    ELSE [sub EXCEPT !.lost = @ \cup {id}]

\* Capture: one turn of the loop over i.clients; a send on a closed channel
\* panics
CaptureOffer(c, s) ==
  /\ ring.cap[c].pc = "notify"
  /\ s \in ring.cap[c].left
  /\ ~ring.sentClosed
  /\ ring' = [ring EXCEPT
       !.cap[c].left = @ \ {s},
       !.sentClosed = ring.sub[s].closed,
       !.sub[s] = IF ring.sub[s].closed THEN @ ELSE Offer(@, ring.cap[c].rec)]
  /\ InspectorOnly

\* Capture: the loop is over, i.clientsMu.RUnlock(), return
CaptureRUnlock(c) ==
  /\ ring.cap[c].pc = "notify"
  /\ ring.cap[c].left = {}
  /\ ring' = [ring EXCEPT !.clientsMu = @ - 1, !.cap[c] = IdleCapture]
  /\ InspectorOnly

\* handleSSE: makes the channel and adds it to i.clients under
\* i.clientsMu.Lock()
SseConnect(s) ==
  /\ ring.sub[s].pc = "none"
  /\ ring.clientsMu = 0
  /\ ring' = [ring EXCEPT
       !.clients = @ \cup {s},
       !.sub[s] = [NoSubscriber EXCEPT !.pc = "added",
                                       !.joined = ring.requestSeq]]
  /\ InspectorOnly

\* handleSSE: i.mu.RLock() and the loop that writes i.requests to the client
\* starts; the writes wait for the client to take them
SseDumpLock(s) ==
  /\ ring.sub[s].pc = "added"
  /\ ring' = [ring EXCEPT !.mu = @ + 1, !.sub[s].pc = "dump"]
  /\ InspectorOnly

\* handleSSE: the client has taken the records of the ring; i.mu.RUnlock()
SseDumpDone(s) ==
  /\ ring.sub[s].pc = "dump"
  /\ ring' = [ring EXCEPT
       !.mu = @ - 1,
       !.sub[s].pc = "stream",
       !.sub[s].got = @ \cup {ring.requests[i].ID[2] :
                                i \in 1..Len(ring.requests)}]
  /\ InspectorOnly

\* handleSSE: the select takes a record from the channel and writes it
SseReceive(s) ==
  /\ ring.sub[s].pc = "stream"
  /\ ring.sub[s].buf # <<>>
  /\ ring' = [ring EXCEPT !.sub[s].buf = Tail(@)]
  /\ InspectorOnly

\* handleSSE: the select takes <-r.Context().Done() and the handler returns
\* into its deferred function
SseDisconnect(s) ==
  /\ ring.sub[s].pc = "stream"
  /\ ring' = [ring EXCEPT !.sub[s].pc = "leaving"]
  /\ InspectorOnly

\* A deferred function that leaves the channel in the set
Removed_Kept(r, s) == r

\* delete(i.clients, ch)
Removed(r, s) == [r EXCEPT !.clients = @ \ {s}]

\* handleSSE, deferred: the channel leaves i.clients under i.clientsMu.Lock()
SseRemove(s) ==
  /\ ring.sub[s].pc = "leaving"
  /\ ring.clientsMu = 0
  /\ ring' = [Removed(ring, s) EXCEPT !.sub[s].pc = "removed"]
  /\ InspectorOnly

\* handleSSE, deferred: close(ch)
SseClose(s) ==
  /\ ring.sub[s].pc = "removed"
  /\ ring' = [ring EXCEPT !.sub[s].pc = "closed", !.sub[s].closed = TRUE]
  /\ InspectorOnly

\* The caller of Capture of the runs with clients
StreamCaps == {"c1"}

\* The clients that read their channel and hang up; the other client stops
\* reading once it has the initial records
Readers == {"s1"}

NextStream ==
  \/ \E c \in StreamCaps : CaptureCall(c)
  \/ \E c \in StreamCaps, req \in CaptureInputs : CaptureRing(c, req)
  \/ \E c \in StreamCaps : CaptureRLock(c)
  \/ \E c \in StreamCaps, s \in SubIds : CaptureOffer(c, s)
  \/ \E c \in StreamCaps : CaptureRUnlock(c)
  \/ \E s \in SubIds : SseConnect(s)
  \/ \E s \in SubIds : SseDumpLock(s)
  \/ \E s \in SubIds : SseDumpDone(s)
  \/ \E s \in Readers : SseReceive(s)
  \/ \E s \in Readers : SseDisconnect(s)
  \/ \E s \in Readers : SseRemove(s)
  \/ \E s \in Readers : SseClose(s)

\* The inspector with live-stream clients: one caller of Capture after
\* another while clients connect, read and disconnect in any order
SpecStream == InitRouter /\ [][NextStream]_vars

NextCaptures ==
  \/ \E c \in CapIds : CaptureCall(c)
  \/ \E c \in CapIds, req \in CaptureInputs : CaptureRing(c, req)
  \/ \E c \in CapIds : CaptureRLock(c)
  \/ \E c \in CapIds : CaptureRUnlock(c)
  \/ \E m \in {"POST", "GET"} : handleClear(m)

\* The inspector without clients: concurrent callers of Capture and clears
SpecCaptures == InitRouter /\ [][NextCaptures]_vars

\* ----------------------------------------------------- claims: the router
\* The compiled routes of a snapshot in insertion order: services in
\* snapshot order, rules in declaration order
RECURSIVE AllRoutes(_, _)
AllRoutes(svcs, i) ==
  IF i > Len(svcs) THEN <<>>
  ELSE ServiceRoutes(svcs[i], 1) \o AllRoutes(svcs, i + 1)

\* The default slot a snapshot fills: the route of its last default service
DefaultSlot(svcs) ==
  LET ds == {i \in 1..Len(svcs) : svcs[i].Default}
  IN IF ds = {} THEN <<>>
     ELSE <<DefaultRouteOf(svcs[CHOOSE i \in ds : \A j \in ds : j <= i])>>

\* The one arrangement ordered by (descending priority, descending pattern
\* length, insertion order)
InsertionOrdered(rs, sorted) ==
  \E f \in IndexPerms(Len(rs)) :
     /\ sorted = [i \in 1..Len(rs) |-> rs[f[i]]]
     /\ \A i, j \in 1..Len(rs) : i < j =>
          \/ RouteLess(rs[f[i]], rs[f[j]])
          \/ (~RouteLess(rs[f[j]], rs[f[i]]) /\ f[i] < f[j])

DoneTasks == {t \in TaskIds : tasks[t].pc = "done"}

NamesOf(svcs) == [i \in 1..Len(svcs) |-> svcs[i].Name]

BackendOf(result) == IF result = <<>> THEN "nil" ELSE result[1].Service.Name

\* C1: after Build on the snapshot of scenario S1, Match on a request with
\* header b-service: sabry returns the route of backend sabry, and Match on a
\* request without the header returns the route of the default backend.
C1_HeaderRouting ==
  \A t \in DoneTasks :
    NamesOf(tasks[t].view.built) = <<"sabry", "ahmed", "default">> =>
      /\ tasks[t].req = 1 => BackendOf(tasks[t].result) = "sabry"
      /\ tasks[t].req = 2 => BackendOf(tasks[t].result) = "default"

\* C2: Match returns the first route of the ordered list whose matcher is
\* true for the request; if no listed route matches, the default route when
\* one is set, and nil only when none matches and no default is set.
C2_MatchFirstOrDefault ==
  \A t \in DoneTasks :
    LET v == tasks[t].view
        req == Requests[tasks[t].req]
        hits == {i \in 1..Len(v.routes) : MatchFunc(v.routes[i], req)}
    IN /\ hits # {} =>
            \E i \in hits : /\ \A j \in hits : i <= j
                            /\ tasks[t].result = <<v.routes[i]>>
       /\ hits = {} => tasks[t].result = v.defaultRoute
       /\ tasks[t].result = <<>> => hits = {} /\ v.defaultRoute = <<>>

\* A Match returned the second route of a list whose first route does not
\* match and whose third route matches too
C2_Witness ==
  \E t \in DoneTasks :
    LET v == tasks[t].view
        req == Requests[tasks[t].req]
    IN /\ Len(v.routes) = 3
       /\ ~MatchFunc(v.routes[1], req)
       /\ MatchFunc(v.routes[3], req)
       /\ tasks[t].result = <<v.routes[2]>>

\* C3: after every Build the list is ordered by (descending priority,
\* descending pattern length, insertion order), the default route is not an
\* element of it, and with the rules of S3 /api/users/1 matches A and
\* /api/orders matches B.
C3_BuildOrder ==
  /\ build.pc = "idle" =>
       /\ InsertionOrdered(AllRoutes(built, 1), routes)
       /\ \A i \in 1..Len(routes) : <<routes[i]>> # defaultRoute
  /\ \A t \in DoneTasks :
       NamesOf(tasks[t].view.built) = <<"A", "B">> =>
         /\ tasks[t].req = 3 => BackendOf(tasks[t].result) = "A"
         /\ tasks[t].req = 4 => BackendOf(tasks[t].result) = "B"

\* The declaration of a service object
DeclOf(svc) ==
  [Name |-> svc.Name, Target |-> svc.Target, Default |-> svc.Default,
   Health |-> svc.Health, Routes |-> svc.Routes]

\* Two snapshots hold the same services with the same rules
SameRules(a, b) ==
  {DeclOf(a[i]) : i \in 1..Len(a)} = {DeclOf(b[i]) : i \in 1..Len(b)}

\* What Match returns for request r on a table
MatchOn(rs, def, r) ==
  LET hit == ScanRoutes(rs, Requests[r], 1) IN IF hit # <<>> THEN hit ELSE def

\* C4: for a request R and two snapshots with the same rules that differ only
\* in the insertion order of rules of equal priority and pattern length,
\* Match(R) after Build returns a route of the same backend.
C4_RouteDeterminism ==
  \A t \in DoneTasks :
    \A d \in RouterDocs :
      LET other == LoadResult(d, 0)
      IN (other.err = "ok" /\ SameRules(other.Services, tasks[t].view.built)) =>
           \A rs \in SortSlice(AllRoutes(other.Services, 1)) :
             BackendOf(MatchOn(rs, DefaultSlot(other.Services), tasks[t].req))
               = BackendOf(tasks[t].result)

\* The table a Match locked is the whole table of one snapshot
CompleteTable(v) ==
  /\ v.routes \in SortSlice(AllRoutes(v.built, 1))
  /\ v.defaultRoute = DefaultSlot(v.built)

\* C6: a Match that runs concurrently with Build scans the complete list and
\* default slot of one snapshot, never a mixture, and the backend of the
\* route it returns is an object of that snapshot.
C6_SnapshotAtomicity ==
  \A t \in TaskIds :
    LET v == tasks[t].view
    IN /\ tasks[t].pc \in {"scan", "default", "done"} => CompleteTable(v)
       /\ tasks[t].pc \in {"scan", "default"} =>
            /\ build.pc \in {"idle", "lock"}
            /\ routes = v.routes
            /\ defaultRoute = v.defaultRoute
       /\ (tasks[t].pc = "done" /\ tasks[t].result # <<>>) =>
            /\ \/ \E i \in 1..Len(v.routes) : tasks[t].result = <<v.routes[i]>>
               \/ tasks[t].result = v.defaultRoute
            /\ \E i \in 1..Len(v.built) : tasks[t].result[1].Service = v.built[i]

\* A Build of a second snapshot waits for the lock while a Match that found
\* no listed route is about to read the default slot of the first
C6_Witness ==
  \E t \in TaskIds :
    /\ tasks[t].pc = "default"
    /\ build.pc = "lock"
    /\ built # <<>>
    /\ build.services # built

\* ------------------------------------- claims: config store, registry, start
\* C5: once the route table has been built from a snapshot the config manager
\* published (one service is the default, declared or promoted), Match
\* returns a route for every request, through every later reload.
C5_DefaultFallback ==
  \A t \in DoneTasks :
    tasks[t].view.built # <<>> => tasks[t].result # <<>>

\* After a reload to a snapshot that declares no default, a Match no rule
\* matches returned the default route of the promoted first service
C5_Witness ==
  \E t \in DoneTasks :
    LET v == tasks[t].view
    IN /\ loads >= 2
       /\ v.built = config[1].Services
       /\ config[1].gen >= 2
       /\ NamesOf(v.built) = <<"a", "b">>
       /\ ScanRoutes(v.routes, Requests[tasks[t].req], 1) = <<>>
       /\ tasks[t].result # <<>>
       /\ tasks[t].result = v.defaultRoute
       /\ BackendOf(tasks[t].result) = "a"

\* C7: after a reload has been applied (the OnReload callback returned), the
\* names the registry holds are the names of the new snapshot.
C7_RegistryMatchesSnapshot ==
  (main.pc = "watch" /\ config # <<>>) =>
    DOMAIN services = {config[1].Services[i].Name :
                         i \in 1..Len(config[1].Services)}

\* The healthCheckLoop goroutines of backend name n that have not returned
RunningProbes(n) ==
  {k \in 1..Len(probes) :
     probes[k].loop /\ probes[k].svc.Name = n /\ probes[k].pc # "exited"}

\* C8: at every moment at most one probe goroutine runs for a backend name.
C8_OneProbePerBackend ==
  \A k \in 1..Len(probes) :
    Cardinality(RunningProbes(probes[k].svc.Name)) <= 1

\* C9: after Deregister(name) the probe goroutine of that backend issues no
\* probe after the iteration that follows the Deregister.
C9_DeregisterStopsProbe ==
  \A k \in 1..Len(probes) : probes[k].dereg => probes[k].after <= 1

\* The health of backend name n as the registry reports it
HealthOfName(svcs, st, n) == st[svcs[n].id]

\* C10: the health of a backend that has become Healthy or Unhealthy does
\* not return to Unknown, whatever probe, Register call or reload comes next.
C10_NoReturnToUnknown ==
  [][\A n \in DOMAIN services \cap DOMAIN services' :
       HealthOfName(services, status, n) \in {"healthy", "unhealthy"} =>
         HealthOfName(services', status', n) # "unknown"]_vars

\* ------------------------------------------------- claims: probes and events
\* The ServiceHealthChanged events buffered in a channel
HealthEvents(ch) ==
  Cardinality({i \in 1..Len(ch) : ch[i].Type = "ServiceHealthChanged"})

\* C11: a probe emits a ServiceHealthChanged event only when it changes the
\* health of the backend; a probe whose outcome is the current state (a
\* failure of a backend that is already Unhealthy) emits none.
C11_EventOnlyOnChange ==
  [][\A k \in 1..Len(probes) :
       (/\ probes[k].pc = "emit"
        /\ probes'[k].pc # "emit"
        /\ HealthEvents(eventCh') > HealthEvents(eventCh))
         => probes[k].prev # StatusOf(probes[k].outcome)]_vars

\* C12: an observed backend has the health its most recent completed probe
\* found (2xx: Healthy, anything else: Unhealthy), also when a HealthCheck
\* call runs concurrently with the probe goroutine.  Stated at the moment a
\* probe completes: the backend then has the health that probe found.
C12_StateOfLastProbe ==
  [][\A k \in 1..Len(probes) :
       (probes[k].pc = "emit" /\ probes'[k].pc # "emit")
         => status'[probes[k].svc.id] = StatusOf(probes[k].outcome)]_vars

\* ---------------------------------------------- claims: the config manager
IsLoad(e) == e.op \in {"new", "reload"}

\* The Loads that succeeded, as positions of the record
OkLoads == {i \in 1..Len(cfgLog) : IsLoad(cfgLog[i]) /\ cfgLog[i].err = "ok"}

\* The snapshot a successful Load of the record published
SnapshotOf(e) ==
  <<[gen |-> e.gen, Services |-> LoadResult(e.doc, e.gen - 1).Services]>>

\* C13: when Load fails the snapshot Get returns is the one from before the
\* Load: the current snapshot is always that of the last Load that succeeded.
C13_FailedLoadKeepsSnapshot ==
  IF OkLoads = {} THEN config = <<>>
  ELSE config = SnapshotOf(cfgLog[CHOOSE i \in OkLoads : \A j \in OkLoads : j <= i])

\* The last thing the manager did was a reload that failed, on a file that
\* differs from the one of the snapshot it still holds
C13_Witness ==
  /\ cfgLog # <<>>
  /\ cfgLog[Len(cfgLog)].op = "reload"
  /\ cfgLog[Len(cfgLog)].err # "ok"
  /\ config # <<>>
  /\ LoadResult(file, 0).err # "ok"

IsManagerStep(e) == e.op # "write"

\* What the manager did, without the writes of the file
ManagerLog == SelectSeq(cfgLog, IsManagerStep)

\* C14: on a reload of the watcher the listeners are called if and only if
\* the Load succeeded: none after a failed Load (the watcher keeps watching),
\* and after a successful Load every listener once, in order, with the
\* snapshot that Load published.
C14_ListenersIffReloaded ==
  LET L == ManagerLog
  IN /\ \A i \in 1..Len(L) :
          /\ L[i].op = "call" =>
               /\ i > 1
               /\ L[i - 1].gen = L[i].gen
               /\ IF L[i].n = 1
                    THEN L[i - 1].op = "reload" /\ L[i - 1].err = "ok"
                    ELSE L[i - 1].op = "call" /\ L[i - 1].n = L[i].n - 1
          /\ (i < Len(L) /\ L[i].op = "reload" /\ L[i].err = "ok") =>
               L[i + 1].op = "call" /\ L[i + 1].n = 1
          /\ (i < Len(L) /\ L[i].op = "call" /\ L[i].n < MaxListeners) =>
               L[i + 1].op = "call"
     /\ (main.pc = "watch" /\ L # <<>>) =>
          /\ ~(L[Len(L)].op = "reload" /\ L[Len(L)].err = "ok")
          /\ L[Len(L)].op = "call" => L[Len(L)].n = MaxListeners
     /\ (L # <<>> /\ L[Len(L)].op = "reload" /\ L[Len(L)].err # "ok") =>
          main.pc \in {"watch", "sleep"}

\* A reload failed and called nobody, the next one succeeded and the last
\* listener has been called with its snapshot
C14_Witness ==
  LET L == ManagerLog
  IN /\ main.pc = "watch"
     /\ Len(L) >= 3 + MaxListeners
     /\ L[2].op = "reload" /\ L[2].err # "ok"
     /\ L[3].op = "reload" /\ L[3].err = "ok"
     /\ L[Len(L)].op = "call" /\ L[Len(L)].n = MaxListeners
     /\ L[Len(L)].gen = L[3].gen
     /\ config[1].gen = L[3].gen

\* The reloads of the watcher, and the writes that did not fall into the
\* 100 ms sleep following an earlier write
WatcherLoads == Cardinality({i \in 1..Len(cfgLog) : cfgLog[i].op = "reload"})
WriteBursts ==
  Cardinality({i \in 1..Len(cfgLog) : cfgLog[i].op = "write" /\ cfgLog[i].n = 0})

\* C15: two writes of the file within 100 ms of each other produce exactly
\* one reload: once the watcher is idle again it has reloaded once per burst
\* of writes.
C15_ReloadCoalescing ==
  (main.pc = "watch" /\ events = 0) => WatcherLoads <= WriteBursts

Defaults(svcs) == {i \in 1..Len(svcs) : svcs[i].Default}

\* C16: every published snapshot has at least one backend, names that are
\* non-empty and pairwise distinct, and exactly one default; a document with
\* more than one declared default is rejected, and when none is declared the
\* first backend is the default.
C16_SnapshotWellFormed ==
  /\ config # <<>> =>
       LET svcs == config[1].Services
       IN /\ Len(svcs) >= 1
          /\ \A i \in 1..Len(svcs) : svcs[i].Name # ""
          /\ \A i, j \in 1..Len(svcs) : svcs[i].Name = svcs[j].Name => i = j
          /\ Cardinality(Defaults(svcs)) = 1
  /\ \A i \in 1..Len(cfgLog) :
       IsLoad(cfgLog[i]) =>
         /\ Cardinality(Defaults(cfgLog[i].doc)) > 1 => cfgLog[i].err # "ok"
         /\ (cfgLog[i].err = "ok" /\ Defaults(cfgLog[i].doc) = {}) =>
              Defaults(SnapshotOf(cfgLog[i])[1].Services) = {1}

\* A document with two declared defaults was rejected, and the snapshot comes
\* from a document with two backends that declares none
C16_Witness ==
  /\ config # <<>>
  /\ Len(config[1].Services) = 2
  /\ Defaults(config[1].Services) = {1}
  /\ Defaults(file) = {}
  /\ \E i \in 1..Len(cfgLog) :
       /\ IsLoad(cfgLog[i])
       /\ cfgLog[i].doc = DocTwoDefaults
       /\ cfgLog[i].err # "ok"

\* ------------------------------------------------------- claims: the proxy
RECURSIVE SumOf(_)
SumOf(f) ==
  IF DOMAIN f = {} THEN 0
  ELSE LET id == CHOOSE x \in DOMAIN f : TRUE
       IN f[id] + SumOf([y \in DOMAIN f \ {id} |-> f[y]])

InFlight == {t \in TaskIds : handlers[t].pc \in {"match", "upstream"}}

\* C17: TotalRequests never decreases, and whenever no request is in flight
\* it equals the sum of the request counters of the backends plus the number
\* of requests rejected for lack of a route, WebSocket upgrades included.
C17_CounterConsistency ==
  [][/\ stats'.TotalRequests >= stats.TotalRequests
     /\ (InFlight' = {}) =>
          stats'.TotalRequests = SumOf(stats'.RequestCount) + stats'.Rejected]_vars

\* The counters reported for the backend registered under a name
RequestsOf(svcs, st, n) == Count(st.RequestCount, svcs[n].id)

ErrorsOf(svcs, st, n) == Count(st.ErrorCount, svcs[n].id)

\* C18: the request counter and the error counter of a backend never
\* decrease while a backend of that name stays registered, reloads included.
C18_BackendCountersMonotonic ==
  [][\A n \in DOMAIN services \cap DOMAIN services' :
       /\ RequestsOf(services', stats', n) >= RequestsOf(services, stats, n)
       /\ ErrorsOf(services', stats', n) >= ErrorsOf(services, stats, n)]_vars

\* The steps of handler t that end a plain request without a route
NoRouteStep(t) ==
  /\ handlers[t].pc = "match"
  /\ ~handlers[t].ws
  /\ tasks[t].pc = "done"
  /\ tasks[t].result = <<>>
  /\ handlers'[t].pc = "done"

\* C19: a request that is no WebSocket upgrade and for which Match returns no
\* route is answered 502, is recorded with an error saying that no route
\* matched, and leaves the request and error counters of every backend as
\* they were.
C19_NoRouteIs502 ==
  [][\A t \in TaskIds :
       NoRouteStep(t) =>
         /\ handlers'[t].code = 502
         /\ Len(handlers'[t].captured) = 1
         /\ Contains(handlers'[t].captured[1].Error, <<"n", "o", " ", "m", "a", "t", "c", "h", "i", "n", "g", " ", "r", "o", "u", "t", "e">>)
         /\ stats'.RequestCount = stats.RequestCount
         /\ stats'.ErrorCount = stats.ErrorCount]_vars

C19_Witness ==
  \E t \in TaskIds :
    /\ handlers[t].pc = "done"
    /\ ~handlers[t].ws
    /\ tasks[t].result = <<>>
    /\ handlers[t].code = 502
    /\ handlers[t].captured # <<>>

\* C20: a failure of the upstream is answered 504 exactly when the error is a
\* timeout, and 502 otherwise, EOF included.
C20_UpstreamErrorMapping ==
  \A t \in TaskIds :
    (handlers[t].pc = "done" /\ handlers[t].err # <<>>) =>
      /\ handlers[t].code = 504 <=> handlers[t].err[1] = "timeout"
      /\ handlers[t].code # 504 => handlers[t].code = 502

C20_Witness ==
  \E t \in TaskIds :
    /\ handlers[t].pc = "done"
    /\ handlers[t].err = <<"timeout">>
    /\ handlers[t].code = 504
    /\ ~handlers[t].ws

\* The steps of handler t in which an upstream error is answered
UpstreamErrorStep(t) ==
  /\ handlers[t].pc \in {"match", "upstream"}
  /\ handlers'[t].pc = "done"
  /\ handlers'[t].err # <<>>

\* C21: every upstream error that is answered with a status, on the HTTP path
\* or after a failed dial of the WebSocket path, adds exactly one to the
\* error counter of the selected backend and to the global error counter.
C21_ErrorsCounted ==
  [][\A t \in TaskIds :
       UpstreamErrorStep(t) =>
         LET id == tasks[t].result[1].Service.id
         IN /\ stats'.TotalErrors = stats.TotalErrors + 1
            /\ Count(stats'.ErrorCount, id) = Count(stats.ErrorCount, id) + 1]_vars

\* ------------------------------------------- claims: rewrite and director
\* C22: on every forwarded request the outgoing X-Forwarded-Host is the host
\* of the inbound request, and the outgoing Host is the host of the backend.
C22_ForwardedHost ==
  fwd.pc = "sent" =>
    /\ HGet(fwd.req.Header, "X-Forwarded-Host") = <<fwd.in.Host>>
    /\ fwd.req.Host = fwd.svc.TargetURL.Host

\* The path with a leading "/" put back
WithSlash(p) == IF HasPrefix(p, <<"/">>) THEN p ELSE <<"/">> \o p

\* The three steps as the rule states them, on an unset field a no-op
StripStep(p, x) ==
  IF x = <<>> THEN p
  ELSE WithSlash(IF HasPrefix(p, x) THEN SubSeq(p, Len(x) + 1, Len(p)) ELSE p)

PrefixStep(p, x) == IF x = <<>> \/ HasPrefix(p, x) THEN p ELSE x \o p

ReplaceStep(p, x) == IF x = <<>> THEN p ELSE x

StripOnly(x) == <<RewriteConfig(x, <<>>, <<>>)>>

\* C23: RewriteURL applies StripPrefix, then Prefix, then Replace; with
\* StripPrefix /api, /api/users/42 becomes /users/42 and /api becomes /.
C23_RewriteOrder ==
  fwd.pc = "rewritten" =>
    /\ fwd.svc.Rewrite # <<>> =>
         LET rw == fwd.svc.Rewrite[1]
         IN fwd.req.Path =
              ReplaceStep(PrefixStep(StripStep(fwd.in.Path, rw.StripPrefix),
                                     rw.Prefix), rw.Replace)
    /\ fwd.svc.Rewrite = <<>> => fwd.req.Path = fwd.in.Path
    /\ (fwd.svc.Rewrite = StripOnly(PathApi) /\ fwd.in.Path = PathApiUsers42)
         => fwd.req.Path = PathUsers42
    /\ (fwd.svc.Rewrite = StripOnly(PathApi) /\ fwd.in.Path = PathApi)
         => fwd.req.Path = PathRoot

C23_Witness ==
  /\ fwd.pc = "rewritten"
  /\ fwd.in.Path = PathApiUsers42
  /\ fwd.svc.Rewrite = <<RewriteConfig(PathApi, PathV1, <<>>)>>
  /\ fwd.req.Path = PathV1 \o PathUsers42

\* The rewrite has only StripPrefix set, and the inbound path does not begin
\* with it
StripMisses ==
  /\ fwd.svc.Rewrite # <<>>
  /\ fwd.svc.Rewrite = StripOnly(fwd.svc.Rewrite[1].StripPrefix)
  /\ fwd.svc.Rewrite[1].StripPrefix # <<>>
  /\ ~HasPrefix(fwd.in.Path, fwd.svc.Rewrite[1].StripPrefix)

HasReplace == fwd.svc.Rewrite # <<>> /\ fwd.svc.Rewrite[1].Replace # <<>>

\* C24: a StripPrefix that the path does not begin with leaves the
\* path unchanged the first and the second time, and a Replace applied twice
\* gives what it gives once.
C24_RewriteIdempotence ==
  /\ (fwd.pc \in {"rewritten", "twice"} /\ StripMisses)
       => fwd.req.Path = fwd.in.Path
  /\ (fwd.pc = "twice" /\ HasReplace) => fwd.req.Path = fwd.once

\* --------------------------------------------------- claims: rules, priority
\* A header clause Name=Value (or Name: Value) holds on a request whose
\* header Name has the value Value
HeaderClauseHolds(h, req) ==
  \E sep \in {"=", ":"} :
    LET parts == SplitN2(h, sep)
    IN /\ Len(parts) = 2
       /\ HeaderGet(req.Header, TrimSpace(parts[1])) = TrimSpace(parts[2])

\* Every clause the rule populates holds on the request
ClausesHold(cfg, req) ==
  /\ cfg.Path # <<>> => matchPath(req.Path, cfg.Path)
  /\ cfg.Header # <<>> => HeaderClauseHolds(cfg.Header, req)
  /\ cfg.Subdomain # <<>> => matchSubdomain(req.Host, cfg.Subdomain)
  /\ cfg.Method # <<>> => req.Method = ToUpper(cfg.Method)

\* C25: a compiled route matches a request if and only if every clause its
\* rule populates matches the request; a rule with a path and a header does
\* not match a request that has the path and lacks the header value.
C25_ClausesConjunctive ==
  \A t \in DoneTasks :
    \A i \in 1..Len(tasks[t].view.routes) :
      LET route == tasks[t].view.routes[i]
          req == Requests[tasks[t].req]
      IN MatchFunc(route, req) <=> ClausesHold(route.Config, req)

\* The rank of a rule among rules of equal priority, as documented: header,
\* then subdomain, then path
KindRank(cfg) ==
  IF cfg.Header # <<>> THEN 3 ELSE IF cfg.Subdomain # <<>> THEN 2 ELSE 1

\* Route a is tried before route b by the documented priority
DocumentedBefore(a, b) ==
  \/ a.Config.Priority > b.Config.Priority
  \/ /\ a.Config.Priority = b.Config.Priority
     /\ \/ KindRank(a.Config) > KindRank(b.Config)
        \/ /\ KindRank(a.Config) = 1
           /\ KindRank(b.Config) = 1
           /\ Len(a.Pattern) > Len(b.Pattern)

\* C26: the route Match returns is the matching route that the documented
\* priority tries first: higher priority, then header before subdomain
\* before path, then the longer path, the default last.
C26_DocumentedPriority ==
  \A t \in DoneTasks :
    LET v == tasks[t].view
        req == Requests[tasks[t].req]
        hits == {i \in 1..Len(v.routes) : MatchFunc(v.routes[i], req)}
    IN hits # {} =>
         /\ tasks[t].result # <<>>
         /\ \E i \in hits : tasks[t].result[1] = v.routes[i]
         /\ \A i \in hits : ~DocumentedBefore(v.routes[i], tasks[t].result[1])

\* ------------------------------------------------ claims: WebSocket session
IsPrefix(a, b) == Len(a) <= Len(b) /\ SubSeq(b, 1, Len(a)) = a

TornDown ==
  /\ sess.pc = "returned"
  /\ sess.client = "closed"
  /\ sess.backend = "closed"
  /\ \A d \in Directions : sess.copier[d].pc = "exited"
  /\ sess.conns = 0

\* C28: once a copier has seen a read or write error, the exchange ends:
\* both connections are closed, both copiers exit, and the counter of active
\* WebSocket connections is back at its value before the exchange.
C28_Teardown ==
  (\E d \in Directions : sess.copier[d].pc = "report") ~> TornDown

C28_Witness == TornDown /\ sess.recv["c2b"] # <<>>

\* --------------------------------------------------- claims: the inspector
SeqOf(rec) == rec.ID[2]

\* C29: the ring never holds more than its capacity, its records are newest
\* first, and a Capture on a full ring puts the new record in front and
\* drops exactly the oldest one.
C29_RingBounded ==
  /\ [](/\ Len(ring.requests) <= MaxSize
        /\ \A i \in 1..(Len(ring.requests) - 1) :
             SeqOf(ring.requests[i]) > SeqOf(ring.requests[i + 1]))
  /\ [][(ring'.requestSeq # ring.requestSeq /\ Len(ring.requests) = MaxSize) =>
          /\ SeqOf(ring'.requests[1]) = ring'.requestSeq
          /\ Tail(ring'.requests) = SubSeq(ring.requests, 1, MaxSize - 1)]_vars

C29_Witness ==
  /\ Len(ring.requests) = MaxSize
  /\ ring.requestSeq > MaxSize
  /\ SeqOf(ring.requests[MaxSize]) = ring.requestSeq - MaxSize + 1

\* ------------------------------------------------ claims: the self-check
\* C30: a request for /__hz/health is answered 200 by the proxy itself and is
\* never handed to a backend, whatever the routes and the state of the
\* backends.
C30_SelfCheck ==
  \A t \in TaskIds :
    (handlers[t].req # 0 /\ Requests[handlers[t].req].Path = PathHzHealth) =>
      /\ handlers[t].pc # "upstream"
      /\ handlers[t].pc = "done" => handlers[t].code = 200

\* ----------------------------------------------------- claims: the shutdown
\* The order of the stops as the shutdown is described
ClaimedOrder == <<"registry", "watcher", "server", "inspector", "tunnel">>

\* No reload registers a service after Registry.Stop has cancelled the
\* context
NoLateReload ==
  [][(ctxDone /\ main.pc = "register") => main'.i = main.i]_vars

\* C31: on a termination signal the registry is stopped first, then the
\* watcher, the server, the inspector and the tunnel; and once the registry
\* is stopped no reload registers a service with it.
C31_ShutdownOrder ==
  /\ [](IsPrefix(main.down, ClaimedOrder))
  /\ NoLateReload

\* C32: when the event channel is closed no goroutine of healthCheckLoop is
\* running, those started by a Register concurrent with Stop included.
C32_NoProbeAfterClose ==
  chClosed =>
    \A k \in 1..Len(probes) : probes[k].loop => probes[k].pc = "exited"

\* ------------------------------------------------- claims: the event channel
\* A step of Register stores the service and sets it Unknown; a step of
\* Deregister removes the name; a step of the probe sets the status
RegistryUpdated ==
  /\ [][nRegs' = nRegs + 1 =>
          \E svc \in RegistryPool :
            /\ svc.Name \in DOMAIN services' /\ services'[svc.Name] = svc
            /\ status'[svc.id] = "unknown"]_vars
  /\ [][\A k \in 1..Len(probes) :
          (probes[k].pc # "emit" /\ probes'[k].pc = "emit") =>
            status'[probes[k].svc.id] = StatusOf(probes[k].outcome)]_vars

\* Whatever the channel holds, Register, Deregister and the emit of a probe
\* can take their step
NeverBlocks ==
  /\ \A svc \in RegistryPool :
       (~panicked /\ nRegs < MaxRegisters) => ENABLED RegisterCall(svc)
  /\ \A n \in DOMAIN services : ~panicked => ENABLED Deregister(n)
  /\ \A k \in 1..Len(probes) :
       (~panicked /\ probes[k].pc = "emit") => ENABLED ProbeReturn(k)

\* C33: the event channel is bounded and lossy: it never holds more than
\* EventCap events, emitting never blocks Register, Deregister or a probe,
\* and with the buffer full and nobody reading the event is dropped while
\* the map and the status are still updated.
C33_BoundedLossy ==
  /\ [](Len(eventCh) <= EventCap)
  /\ [](NeverBlocks)
  /\ [][Len(eventCh) = EventCap => eventCh' = eventCh]_vars
  /\ RegistryUpdated

\* The last free slot took the event of a Register, and then, with the
\* buffer full, a Deregister and a probe changed the map and the status
C33_Witness ==
  /\ Len(eventCh) = EventCap
  /\ eventCh[EventCap].Type = "ServiceAdded"
  /\ eventCh[EventCap].Name # PlainService.Name
  /\ PlainService.Name \notin DOMAIN services
  /\ \E svc \in RegistryPool : status[svc.id] \in {"healthy", "unhealthy"}

\* ------------------------------------------- claims: requests across reloads
\* The names of the services the router was last built from
BuiltNames == {built[i].Name : i \in 1..Len(built)}

\* C34: a request that selected its route is forwarded to the backend of that
\* route and counted on it, whatever Build does to the table while the
\* request is in flight: from the moment the route is stored in the request
\* context the handler keeps it, the director takes its target from it, and
\* an upstream error is counted on its service object.
C34_InFlightKeepsBackend ==
  [][\A t \in TaskIds :
       /\ (handlers[t].pc = "match" /\ handlers'[t].pc = "upstream") =>
            /\ handlers'[t].route = tasks[t].result
            /\ Count(stats'.RequestCount, tasks[t].result[1].Service.id)
                 = Count(stats.RequestCount, tasks[t].result[1].Service.id) + 1
       /\ (handlers[t].pc = "upstream" /\ handlers'[t].pc = "upstream") =>
            handlers'[t].route = handlers[t].route
       /\ (handlers[t].pc = "upstream" /\ handlers'[t].pc = "done") =>
            LET svc == handlers[t].route[1].Service
            IN /\ handlers'[t].target = <<svc.Target>>
               /\ handlers'[t].captured[1].Service = svc.Name
               /\ handlers'[t].err # <<>> =>
                    Count(stats'.ErrorCount, svc.id)
                      = Count(stats.ErrorCount, svc.id) + 1]_vars

\* A request was forwarded to b, and its error counted on b, after the
\* router was rebuilt from a snapshot without b
C34_Witness ==
  \E t \in TaskIds :
    /\ handlers[t].pc = "done"
    /\ handlers[t].err # <<>>
    /\ handlers[t].route # <<>>
    /\ handlers[t].route[1].Service.Name \notin BuiltNames
    /\ build.pc = "idle"
    /\ built # <<>>
    /\ handlers[t].target = <<handlers[t].route[1].Service.Target>>
    /\ Count(stats.ErrorCount, handlers[t].route[1].Service.id) = 1

C36_CaptureNeverBlocks ==
  \A c \in StreamCaps :
    /\ ring.cap[c].pc = "called" =>
         ENABLED (\E req \in CaptureInputs : CaptureRing(c, req))
    /\ ring.cap[c].pc = "unlocked" => ENABLED CaptureRLock(c)
    /\ ring.cap[c].pc = "notify" =>
         \/ ENABLED CaptureRUnlock(c)
         \/ \E s \in SubIds : ENABLED CaptureOffer(c, s)

\* The ids of the records of the ring, newest first
RingIds == [i \in 1..Len(ring.requests) |-> ring.requests[i].ID[2]]

\* C37: the N-th Capture since inspector.New gets the id req_N, also with
\* concurrent callers and after a clear, which leaves the sequence alone;
\* the ids of the ring decrease strictly from the newest to the oldest.
C37_IdsMonotonic ==
  /\ [][ring'.requestSeq # ring.requestSeq =>
          /\ ring'.requestSeq = ring.requestSeq + 1
          /\ ring'.requests # <<>>
          /\ ring'.requests[1].ID = <<"req", ring'.requestSeq>>
          /\ \E c \in CapIds : /\ ring.cap[c].pc = "called"
                               /\ ring'.cap[c].rec = ring'.requestSeq]_vars
  /\ [](/\ \A i \in 1..Len(RingIds) : RingIds[i] \in 1..ring.requestSeq
        /\ \A i, j \in 1..Len(RingIds) : i < j => RingIds[i] > RingIds[j]
        /\ \A c, d \in CapIds :
             (c # d /\ ring.cap[c].rec # 0) => ring.cap[c].rec # ring.cap[d].rec)

\* Two callers are past the ring at once, and the only record in the ring
\* after a clear carries the id of the third capture or a later one
C37_Witness ==
  /\ \A c \in CapIds : ring.cap[c].pc \in {"unlocked", "notify"}
  /\ Len(ring.requests) = 1
  /\ ring.requestSeq >= 3
  /\ RingIds[1] = ring.requestSeq

\* C38: no send is attempted on the event channel once Stop has closed it,
\* by Register, Deregister, HealthCheck or a late probe.
C38_NoSendAfterClose ==
  [][chClosed => ~panicked']_vars

\* C39: Capture never sends on a closed client channel: a closed channel is
\* not in the set and no Capture that holds the read lock of the set has it
\* in its loop.
C39_NoSendOnClosed ==
  /\ ~ring.sentClosed
  /\ \A s \in SubIds :
       ring.sub[s].pc \in {"removed", "closed"} =>
         /\ s \notin ring.clients
         /\ \A c \in CapIds :
              ring.cap[c].pc = "notify" => s \notin ring.cap[c].left

\* A client that got records has hung up and its channel is closed, while a
\* Capture of a record taken after that client joined holds the read lock of
\* the set and another client is still in the set
C39_Witness ==
  \E s \in SubIds, c \in StreamCaps :
    /\ ring.sub[s].pc = "closed"
    /\ ring.sub[s].got # {}
    /\ ring.cap[c].pc = "notify"
    /\ ring.cap[c].rec > ring.sub[s].joined
    /\ ring.clients # {}

\* The Capture of record n has still to offer it to client s
Pending(n, s) ==
  \E c \in CapIds :
    /\ ring.cap[c].rec = n
    /\ \/ ring.cap[c].pc = "unlocked"
       \/ ring.cap[c].pc = "notify" /\ s \in ring.cap[c].left

\* C40: a client of the live stream misses no record: a record captured
\* after its channel joined the set is offered on the channel, the records
\* in the ring at the initial dump are in the dump, and a record is lost only
\* when the buffer is full at the offer.
C40_NoMissedRecord ==
  /\ [](\A s \in SubIds :
          ring.sub[s].pc \in {"added", "dump", "stream", "leaving"} =>
            \A n \in (ring.sub[s].joined + 1)..ring.requestSeq :
              Pending(n, s) \/ n \in ring.sub[s].got \cup ring.sub[s].lost)
  /\ [][\A s \in SubIds :
          /\ (ring.sub[s].pc = "dump" /\ ring'.sub[s].pc = "stream") =>
               {RingIds[i] : i \in 1..Len(RingIds)} \subseteq ring'.sub[s].got
          /\ ring'.sub[s].lost # ring.sub[s].lost =>
               /\ Len(ring.sub[s].buf) = ChanCap
               /\ ring'.sub[s].buf = ring.sub[s].buf]_vars

\* A client connected after the first capture got the older record in its
\* dump, ten later ones on its channel, and lost one to the full buffer
C40_Witness ==
  \E s \in SubIds :
    /\ ring.sub[s].pc = "stream"
    /\ ring.sub[s].joined >= 1
    /\ 1 \in ring.sub[s].got
    /\ Len(ring.sub[s].buf) = ChanCap
    /\ ring.sub[s].lost # {}

====
